---- MODULE Spec2Model ----
(***************************************************************************)
(* A model of awsimple's bounded LRU disk cache (awsimple/cache.py) and of *)
(* the DynamoDB scan cache with its freshness (metadata) table             *)
(* (awsimple/dynamodb.py, awsimple/dynamodb_miv.py).                       *)
(*                                                                         *)
(* Sizes are bytes, times are whole seconds.  None is -1: sizes, ceilings  *)
(* and times are never negative.                                           *)
(***************************************************************************)
EXTENDS Integers, Sequences, FiniteSets, TLC

None == -1

(***************************************************************************)
(* Bounds of the cache model.                                              *)
(***************************************************************************)
NumFiles == 2
MaxSize == 2
MaxAtime == 2
MaxAbsolute == 3
MaxDiskFree == 4

FileNames == 1..NumFiles
Sizes == 0..MaxSize

\* max_free_portion is a float in the source; here it is PortionNum / PortionDen
PortionDen == 2
PortionNums == {1}
AbsoluteCeilings == {1, MaxAbsolute}
DiskFrees == {MaxDiskFree}

VARIABLES
    cache,      \* the cache directory: file name -> [size, atime] or NoFile
    clock,      \* wall clock (seconds)
    lastWrite,  \* the lru_cache_write call that has just returned, or NoCall
    table,      \* the remote DynamoDB table: [exists, items]
    metadata,   \* the remote metadata table: [exists, item: name -> None or [mtime_f]]
    snapshot,   \* the local cache file of the table (<table_name>.pickle), or NoSnapshot
    touched,    \* name -> time of the most recent completed update_table_mtime, or None
    unchanged,  \* TRUE while the snapshot is as scan_table_cached wrote it and the table as it scanned it
    lastMutation,   \* the mutating call that has just returned, or NoCall
    lastScan,   \* the scan_table_cached call that has just returned, or NoCall
    nameCall,   \* the make_name_aws_safe call that has just returned or raised, or NoCall
    namePrev,   \* the make_name_aws_safe call before it, or NoCall
    remote,     \* the S3 object under the key: [exists, content, sha512]
    dest,       \* the file at dest_path: [exists, content]
    cacheContent,   \* the content of each file of the cache directory, or None
    sinceDownload,  \* what happened to the S3 object since the last download_cached
    lastDownload,   \* the download_cached call that has just returned, or NoCall
    queues,     \* the names of the SQS queues that exist
    lastReap,   \* the most recent remove_old_queues call that has returned or raised, or NoCall
    nodePc,     \* where the coordinator of each node of the channel is
    reader,     \* the scan_table_cached call of the reader: [pc, table_data, after_touch]
    writerPc,   \* where the put_item call of the writer is
    mivItems,   \* the items of one partition value of a DynamoDBMIVUI table: [mivui, put]
    mivWriters, \* each writer's put_item call: [pc, existing_miv_ui]
    mivPuts,    \* the put_item calls that have returned, in the order of their table.put_item
    node_queue,     \* the SQS queue of the coordinator's node: [exists, subscribed, policy]
    sub_callback,   \* _PubSub.sub_callback is not None
    use_sub_queue,  \* _PubSub.use_sub_queue (sub_poll)
    pc,             \* where the coordinator thread (_PubSub.run) is
    threadPc,       \* where the pump thread (_SubscriptionThread.run) is
    pub_queue,      \* _PubSub._pub_queue: the dicts passed to publish()
    thread_sub_queue,   \* _SubscriptionThread.sub_queue: message strings
    sub_queue,      \* _PubSub._sub_queue, the polling inbox: message strings
    exit_event,     \* _PubSub._exit_event
    new_event,      \* _PubSub._new_event
    thread_exit_event,  \* _SubscriptionThread._exit_event
    batch,          \* the messages receive_messages returned that the pump has not put yet
    sqs_messages,   \* the bodies of the messages in the coordinator's SQS queue
    log             \* what has happened: published, handed to SNS, taken from SQS, dispatched, returned

cacheVars == <<cache, clock, lastWrite>>
scanVars == <<table, metadata, snapshot, touched, unchanged, lastMutation, lastScan>>
nameVars == <<nameCall, namePrev>>
\* the variables of the components modelled after the two caches
s3Vars == <<remote, dest, cacheContent, sinceDownload, lastDownload>>
reapVars == <<queues, lastReap, nodePc>>
mivVars == <<mivItems, mivWriters, mivPuts>>
raceVars == <<reader, writerPc>>
psVars == <<node_queue, sub_callback, use_sub_queue, pc, threadPc, pub_queue, thread_sub_queue, sub_queue,
            exit_event, new_event, thread_exit_event, batch, sqs_messages, log>>
extVars == <<nameVars, mivVars, raceVars, s3Vars, reapVars, psVars>>
vars == <<cache, clock, lastWrite, table, metadata, snapshot, touched, unchanged, lastMutation, lastScan, extVars>>

NoFile == [size |-> None, atime |-> None]
NoCall == [called |-> FALSE]

Present(dir) == {f \in FileNames : dir[f] # NoFile}

RECURSIVE SumSizes(_, _)
SumSizes(dir, files) ==
    IF files = {} THEN 0
    ELSE LET f == CHOOSE x \in files : TRUE
         IN dir[f].size + SumSizes(dir, files \ {f})

\* cache.py get_directory_size: the sum of the sizes of the files of the tree
get_directory_size(dir) == SumSizes(dir, Present(dir))

Min(S) == CHOOSE x \in S : \A y \in S : x <= y

\* cache.py:54  max_free_portion * get_disk_free(), None when no portion is given.
\* Sizes are integers, so comparing them against the real-valued product is the
\* same as comparing them against its floor.
max_free_absolute(portion, free) ==
    IF portion = None THEN None ELSE (portion * free) \div PortionDen

\* cache.py:55-56  the effective ceiling: the minimum of the configured limits
max_cache_size(max_absolute_cache_size, portion, free) ==
    LET values == {v \in {max_free_absolute(portion, free), max_absolute_cache_size} : v # None}
    IN IF values # {} THEN Min(values) ELSE None

MostRecentlyUsed(dir) ==
    {f \in Present(dir) : \A g \in Present(dir) : dir[f].atime >= dir[g].atime}

\* cache.py:81-89  the candidates of one scan: a file whose access time no
\* other file undercuts (rglob's order decides among equal access times)
LeastRecentlyUsed(dir) ==
    {f \in Present(dir) : \A g \in Present(dir) : dir[f].atime <= dir[g].atime}

NeverTooLarge(new_size, max) == FALSE

\* cache.py:68  the new file is larger than the cache itself
TooLarge(new_size, max) == new_size > max

AlwaysRoom(dir, new_size, max) == TRUE

\* cache.py:104  determine if we have room for the new file
IsRoom(dir, new_size, max) == get_directory_size(dir) + new_size <= max

EvictEverything(cache_size, new_size, max) == cache_size + new_size

\* cache.py:74  overage = (cache_size + new_size) - max_cache_size
Overage(cache_size, new_size, max) == (cache_size + new_size) - max

\* cache.py:77-101  the eviction loop; the set of its possible outcomes
NeverGiveUp(overage, starting_overage) == overage

\* cache.py:99-101  a round that freed nothing ends the loop
GiveUp(overage, starting_overage) == IF overage = starting_overage THEN 0 ELSE overage

\* cache.py:123-124  an OSError of getatime, getsize or unlink leaves the loop and
\* the try block: the call ends with the directory as the error found it
AbandonWrite(dir, evicted) == {[dir |-> dir, evicted |-> evicted, caught |-> TRUE]}

\* locked: the files whose examination or deletion raises an OSError
\* (PermissionError, FileNotFoundError)
RECURSIVE Evict(_, _, _, _)
Evict(dir, overage, evicted, locked) ==
    IF overage <= 0 THEN {[dir |-> dir, evicted |-> evicted, caught |-> FALSE]}
    ELSE IF Present(dir) = {}
         THEN {[dir |-> dir, evicted |-> evicted, caught |-> FALSE]}  \* nothing found: overage = starting_overage, give up
         ELSE UNION {
                IF f \in locked THEN AbandonWrite(dir, evicted)
                ELSE
                LET after == [dir EXCEPT ![f] = NoFile]
                    reduced == overage - dir[f].size
                IN Evict(after, GiveUp(reduced, overage),
                         Append(evicted, [path |-> f, access_time |-> dir[f].atime, size |-> dir[f].size]),
                         locked)
                : f \in LeastRecentlyUsed(dir)}

\* cache.py:53-126  the outcomes of a call: directory after eviction, the evicted
\* files (least_recently_used_path, _access_time, _size of each round), is_room
\* (never computed, and the write skipped, when an error was caught)
WriteOutcomes(dir, new_size, max, locked) ==
    IF max = None THEN {[dir |-> dir, evicted |-> <<>>, is_room |-> TRUE, caught |-> FALSE]}
    ELSE IF TooLarge(new_size, max) THEN {[dir |-> dir, evicted |-> <<>>, is_room |-> FALSE, caught |-> FALSE]}
    ELSE {[dir |-> o.dir, evicted |-> o.evicted, is_room |-> ~o.caught /\ IsRoom(o.dir, new_size, max),
           caught |-> o.caught] :
            o \in Evict(dir, Overage(get_directory_size(dir), new_size, max), <<>>, locked)}

\* cache.py:36-126  lru_cache_write(new_data, cache_dir, cache_file_name, ...).
\* new_atime: copy2 keeps the source file's access time, a bytes object is written now.
lru_cache_write(new_size, new_atime, cache_file_name, max_absolute_cache_size, portion, free, locked) ==
    LET max == max_cache_size(max_absolute_cache_size, portion, free)
    IN \E o \in WriteOutcomes(cache, new_size, max, locked) :
        /\ cache' = IF o.is_room
                    THEN [o.dir EXCEPT ![cache_file_name] = [size |-> new_size, atime |-> new_atime]]
                    ELSE o.dir
        /\ lastWrite' = [called |-> TRUE, new_size |-> new_size, name |-> cache_file_name,
                         max |-> max, ret |-> o.is_room, evicted |-> o.evicted,
                         locked |-> locked, caught |-> o.caught]
        /\ UNCHANGED <<clock, scanVars, extVars>>

LruCacheWrite ==
    \E new_size \in Sizes, new_atime \in 0..clock, name \in FileNames,
       max_abs \in AbsoluteCeilings \cup {None}, portion \in PortionNums \cup {None}, free \in DiskFrees :
        lru_cache_write(new_size, new_atime, name, max_abs, portion, free, {})

\* a call during which the files of locked cannot be examined or deleted
LruCacheWriteLocked ==
    \E new_size \in Sizes, new_atime \in 0..clock, name \in FileNames,
       max_abs \in AbsoluteCeilings, f \in FileNames :
        lru_cache_write(new_size, new_atime, name, max_abs, None, MaxDiskFree, {f})

\* s3.py:353-358  a cache hit copies the cached file out, which reads it
ReadCached ==
    \E f \in Present(cache) :
        /\ cache' = [cache EXCEPT ![f].atime = clock]
        /\ lastWrite' = NoCall
        /\ UNCHANGED <<clock, scanVars, extVars>>

Tick ==
    /\ clock < MaxAtime
    /\ clock' = clock + 1
    /\ lastWrite' = NoCall
    /\ UNCHANGED <<cache, scanVars, extVars>>

CacheInit ==
    /\ cache = [f \in FileNames |-> NoFile]
    /\ clock = 0
    /\ lastWrite = NoCall

(***************************************************************************)
(* The DynamoDB scan cache and the metadata (freshness) table.             *)
(***************************************************************************)
MaxTime == 202

TableName == "t"
QueueNames == {"q"}
\* the queues of the reaper model
ReapNames == {"psx", "psy", "zz"}
\* the queues of the coordinators of channel "a" on the nodes "1" and "7"
NodeQueues == {"a/1", "a/7"}
MetaNames == {TableName} \cup QueueNames \cup ReapNames \cup NodeQueues
Items == {"a"}

\* dynamodb.py:65-67
get_accommodated_clock_skew == 100

\* cache_life of the access object: seconds, or Infinite (math.inf, the default)
Infinite == -3
CacheLives == {1, Infinite}
SleepSeconds == {get_accommodated_clock_skew - 1, get_accommodated_clock_skew, get_accommodated_clock_skew + 1}

\* an exception that leaves the called method
Raised == -2

NoSnapshot == [exists |-> FALSE]
NoTable == [exists |-> FALSE, items |-> {}]
\* get_item finds no item under the key
NoItem == [mtime_f |-> None]
NoMetadata == [exists |-> FALSE, item |-> [n \in MetaNames |-> NoItem]]

\* dynamodb.py:134-188  dict_to_dynamodb stores the float m_time as a Decimal of
\* 38 digits precision, which holds every whole number of seconds exactly
dict_to_dynamodb(m_time) == [mtime_f |-> m_time]

\* dynamodb.py:882-892  _DynamoDBMetadataTable.create_table: a new, empty table
metadata_create_table == [exists |-> TRUE, item |-> [n \in MetaNames |-> NoItem]]

UpdateOnlyExisting(m, name, m_time) ==
    IF m.exists THEN [m EXCEPT !.item[name] = dict_to_dynamodb(m_time)] ELSE m

\* dynamodb.py:894-922  _DynamoDBMetadataTable.update_table_mtime: put the item;
\* on ResourceNotFoundException create the metadata table and put again
UpdateTableMtime(m, name, m_time) ==
    IF m.exists
    THEN [m EXCEPT !.item[name] = dict_to_dynamodb(m_time)]
    ELSE [metadata_create_table EXCEPT !.item[name] = dict_to_dynamodb(m_time)]

\* what the first put_item of update_table_mtime does, beside raising
\* ResourceNotFoundException when the metadata table is missing
PutErrors == {"none", "ValidationException", "AccessDeniedException"}

\* dynamodb.py:911-912  the error code of the first put_item
ErrorCode(m, error) ==
    IF error = "AccessDeniedException" THEN error
    ELSE IF ~m.exists THEN "ResourceNotFoundException"
    ELSE error

\* dynamodb.py:894-922  update_table_mtime with the errors of its requests:
\* the metadata table afterwards, whether an exception left the method, the
\* number of put_item requests made, whether create_table was called
UpdateTableMtimeCall(m, name, m_time, error, retry_fails) ==
    LET error_code == ErrorCode(m, error)
    IN IF error_code = "none"
       THEN [metadata |-> UpdateTableMtime(m, name, m_time), raised |-> FALSE, puts |-> 1, created |-> FALSE]
       ELSE IF error_code \in {"ValidationException", "ResourceNotFoundException"}
       THEN \* 913-918: delete_table on ValidationException, create_table, retry_put
            IF retry_fails
            THEN [metadata |-> metadata_create_table, raised |-> TRUE, puts |-> 2, created |-> TRUE]
            ELSE [metadata |-> UpdateTableMtime(NoMetadata, name, m_time), raised |-> FALSE, puts |-> 2,
                  created |-> TRUE]
       ELSE \* 919-920: some other exception, so re-raise it
            [metadata |-> m, raised |-> TRUE, puts |-> 1, created |-> FALSE]

\* dynamodb.py:924-939  _DynamoDBMetadataTable.get_table_mtime_f: get_item of a
\* table that does not exist raises ResourceNotFoundException, as put_item does
\* in update_table_mtime; only DBItemNotFound is caught
GetTableMtimeF(m, name) ==
    IF ~m.exists THEN Raised
    ELSE IF m.item[name] = NoItem THEN None
    ELSE m.item[name].mtime_f

SkewAddedToFile(table_mtime_f, cache_file_mtime) ==
    table_mtime_f # None /\ table_mtime_f <= cache_file_mtime + get_accommodated_clock_skew

AbsentIsEpoch(table_mtime_f, cache_file_mtime) ==
    (IF table_mtime_f = None THEN 0 ELSE table_mtime_f) + get_accommodated_clock_skew <= cache_file_mtime

\* dynamodb.py:380  self.cache_hit
CacheHit(table_mtime_f, cache_file_mtime) ==
    table_mtime_f # None /\ table_mtime_f + get_accommodated_clock_skew <= cache_file_mtime

\* dynamodb.py:373  now <= getmtime(cache_file_path) + self.cache_life
Current(now, cache_file_mtime, cache_life) ==
    cache_life = Infinite \/ now <= cache_file_mtime + cache_life

KeepCacheFile(snap, invalidate_cache) == snap

\* dynamodb.py:366-367  invalidate by deleting the cache file
Invalidate(snap, invalidate_cache) == IF invalidate_cache THEN NoSnapshot ELSE snap

DumpNothing(table_data, now) == [exists |-> TRUE, mtime |-> now, data |-> {}, corrupted |-> FALSE]

\* dynamodb.py:398-399  pickle.dump(table_data, f) into the cache file
PickleDump(table_data, now) == [exists |-> TRUE, mtime |-> now, data |-> table_data, corrupted |-> FALSE]

\* dynamodb.py:352-405  scan_table_cached: self.cache_hit, whether scan_table ran,
\* whether an exception left the method, the list returned, the cache file afterwards
ScanTableCached(snap0, tbl, m, now, invalidate_cache, cache_life) ==
    LET snap == Invalidate(snap0, invalidate_cache)
        miss(file) ==   \* dynamodb.py:392-402
            IF tbl.exists
            THEN [cache_hit |-> FALSE, scanned |-> TRUE, raised |-> FALSE, result |-> tbl.items,
                  snapshot |-> PickleDump(tbl.items, now)]
            ELSE [cache_hit |-> FALSE, scanned |-> TRUE, raised |-> FALSE, result |-> {}, snapshot |-> file]
    IN IF ~snap.exists THEN miss(snap)                         \* FileNotFoundError
       ELSE IF ~Current(now, snap.mtime, cache_life) THEN miss(snap)
       ELSE LET table_mtime_f == GetTableMtimeF(m, TableName)
            IN IF table_mtime_f = Raised
               THEN [cache_hit |-> FALSE, scanned |-> FALSE, raised |-> TRUE, result |-> {}, snapshot |-> snap]
               ELSE IF snap.corrupted THEN miss(NoSnapshot)    \* EOFError, PickleError: unlink
               ELSE IF CacheHit(table_mtime_f, snap.mtime)
                    THEN [cache_hit |-> TRUE, scanned |-> FALSE, raised |-> FALSE, result |-> snap.data,
                          snapshot |-> snap]
                    ELSE miss(snap)

scan_table_cached(invalidate_cache, cache_life) ==
    LET r == ScanTableCached(snapshot, table, metadata, clock, invalidate_cache, cache_life)
    IN /\ snapshot' = r.snapshot
       /\ unchanged' = IF r.scanned /\ table.exists THEN TRUE     \* wrote the cache file
                       ELSE IF ~r.snapshot.exists THEN FALSE
                       ELSE unchanged
       /\ lastScan' = [called |-> TRUE, invalidate_cache |-> invalidate_cache, cache_life |-> cache_life,
                       now |-> clock, file |-> snapshot, table_mtime_f |-> GetTableMtimeF(metadata, TableName),
                       was_unchanged |-> unchanged,
                       cache_hit |-> r.cache_hit, scanned |-> r.scanned, raised |-> r.raised,
                       result |-> r.result]
       /\ lastMutation' = NoCall
       /\ UNCHANGED <<table, metadata, touched, cacheVars, extVars>>

ScanTableCachedCall ==
    \E invalidate_cache \in BOOLEAN, cache_life \in CacheLives :
        scan_table_cached(invalidate_cache, cache_life)

\* a mutating call has returned: what it did, and whether it touched the freshness record
Mutation(op, tbl, mutated, raised, touch) ==
    /\ table' = tbl
    /\ metadata' = IF touch THEN UpdateTableMtime(metadata, TableName, clock) ELSE metadata
    /\ touched' = IF touch THEN [touched EXCEPT ![TableName] = clock] ELSE touched
    /\ unchanged' = IF mutated THEN FALSE ELSE unchanged
    /\ lastMutation' = [called |-> TRUE, op |-> op, time |-> clock, mutated |-> mutated, raised |-> raised]
    /\ lastScan' = NoCall
    /\ UNCHANGED <<snapshot, cacheVars, extVars>>

\* dynamodb.py:431-512  create_table: creates the table if it is missing, then update_table_mtime
create_table ==
    Mutation("create_table", IF table.exists THEN table ELSE [exists |-> TRUE, items |-> {}],
             ~table.exists, FALSE, TRUE)

\* dynamodb.py:680-703  delete_table: ResourceNotFoundException ends the loop, nothing else is done
delete_table ==
    Mutation("delete_table", NoTable, table.exists, FALSE, FALSE)

\* dynamodb.py:720-733  put_item: DynamoDBTableNotFound when the table is missing
put_item ==
    \E i \in Items :
        IF table.exists
        THEN Mutation("put_item", [table EXCEPT !.items = @ \cup {i}], TRUE, FALSE, TRUE)
        ELSE Mutation("put_item", table, FALSE, TRUE, FALSE)

\* dynamodb.py:768-789  delete_item
delete_item ==
    \E i \in Items :
        IF table.exists
        THEN Mutation("delete_item", [table EXCEPT !.items = @ \ {i}], TRUE, FALSE, TRUE)
        ELSE Mutation("delete_item", table, FALSE, TRUE, FALSE)

\* dynamodb.py:792-832  upsert_item
upsert_item ==
    \E i \in Items :
        IF table.exists
        THEN Mutation("upsert_item", [table EXCEPT !.items = @ \cup {i}], TRUE, FALSE, TRUE)
        ELSE Mutation("upsert_item", table, FALSE, TRUE, FALSE)

\* dynamodb.py:834-859  delete_all_items
delete_all_items ==
    IF table.exists
    THEN Mutation("delete_all_items", [table EXCEPT !.items = {}], TRUE, FALSE, TRUE)
    ELSE Mutation("delete_all_items", table, FALSE, TRUE, FALSE)

\* dynamodb_miv.py:56-90  DynamoDBMIVUI.put_item: table.put_item of the item with
\* its miv; update_table_mtime is not called
miv_put_item ==
    \E i \in Items :
        IF table.exists
        THEN Mutation("miv_put_item", [table EXCEPT !.items = @ \cup {i}], TRUE, FALSE, FALSE)
        ELSE Mutation("miv_put_item", table, FALSE, TRUE, FALSE)

\* dynamodb.py:894-922  update_table_mtime for a name that is not the table's
\* (pubsub.py:218 records the use of an SQS queue)
update_table_mtime ==
    \E n \in QueueNames :
        /\ metadata' = UpdateTableMtime(metadata, n, clock)
        /\ touched' = [touched EXCEPT ![n] = clock]
        /\ lastMutation' = NoCall
        /\ lastScan' = NoCall
        /\ UNCHANGED <<table, snapshot, unchanged, cacheVars, extVars>>

\* dynamodb.py:894-922  update_table_mtime of any name, with the errors of its requests
update_table_mtime_call ==
    \E n \in {TableName} \cup QueueNames, error \in PutErrors, retry_fails \in BOOLEAN :
        LET r == UpdateTableMtimeCall(metadata, n, clock, error, retry_fails)
        IN /\ metadata' = r.metadata
           /\ touched' = IF r.raised THEN touched ELSE [touched EXCEPT ![n] = clock]
           /\ lastMutation' = [called |-> TRUE, op |-> "update_table_mtime", name |-> n, time |-> clock,
                               mutated |-> FALSE, raised |-> r.raised, existed |-> metadata.exists,
                               error_code |-> ErrorCode(metadata, error), puts |-> r.puts,
                               created |-> r.created]
           /\ lastScan' = NoCall
           /\ UNCHANGED <<table, snapshot, unchanged, cacheVars, extVars>>

\* dynamodb.py:680-703  delete_table of an access object whose table is the metadata table
delete_metadata_table ==
    /\ metadata.exists
    /\ metadata' = NoMetadata
    /\ lastMutation' = NoCall
    /\ lastScan' = NoCall
    /\ UNCHANGED <<table, snapshot, touched, unchanged, cacheVars, extVars>>

\* dynamodb.py:387-390  the cache file is corrupted (a dump that was cut short)
CorruptCacheFile ==
    /\ snapshot.exists /\ ~snapshot.corrupted
    /\ snapshot' = [snapshot EXCEPT !.corrupted = TRUE]
    /\ unchanged' = FALSE
    /\ lastMutation' = NoCall
    /\ lastScan' = NoCall
    /\ UNCHANGED <<table, metadata, touched, cacheVars, extVars>>

\* test_dynamodb.py:103  time.sleep
Sleep ==
    \E d \in SleepSeconds :
        /\ clock + d <= MaxTime
        /\ clock' = clock + d
        /\ lastMutation' = NoCall
        /\ lastScan' = NoCall
        /\ UNCHANGED <<cache, lastWrite, table, metadata, snapshot, touched, unchanged, extVars>>

\* the variables that the statements of the reader and of the writer leave alone
raceOthers == <<cacheVars, nameVars, mivVars, s3Vars, reapVars, psVars>>

Idle == [pc |-> "idle", table_data |-> {}, after_touch |-> FALSE]

\* dynamodb.py:370-391  scan_table_cached of the reader, up to the decision:
\* on a hit the data of the cache file is returned
reader_check ==
    /\ reader.pc = "idle"
    /\ LET hit == /\ snapshot.exists /\ ~snapshot.corrupted
                  /\ CacheHit(GetTableMtimeF(metadata, TableName), snapshot.mtime)
           after_touch == writerPc = "done"
       IN IF hit
          THEN /\ reader' = Idle
               /\ lastScan' = [called |-> TRUE, now |-> clock, cache_hit |-> TRUE, result |-> snapshot.data,
                               after_touch |-> after_touch]
          ELSE /\ reader' = [pc |-> "scan", table_data |-> {}, after_touch |-> after_touch]
               /\ lastScan' = NoCall
    /\ lastMutation' = NoCall
    /\ UNCHANGED <<table, metadata, snapshot, touched, unchanged, writerPc, raceOthers>>

\* dynamodb.py:395  table_data = self.scan_table()
reader_scan ==
    /\ reader.pc = "scan"
    /\ table.exists
    /\ reader' = [reader EXCEPT !.pc = "dump", !.table_data = table.items]
    /\ lastScan' = NoCall
    /\ lastMutation' = NoCall
    /\ UNCHANGED <<table, metadata, snapshot, touched, unchanged, writerPc, raceOthers>>

\* dynamodb.py:397-405  pickle.dump(table_data, f); return table_data
reader_dump ==
    /\ reader.pc = "dump"
    /\ snapshot' = PickleDump(reader.table_data, clock)
    /\ reader' = Idle
    /\ lastScan' = [called |-> TRUE, now |-> clock, cache_hit |-> FALSE, result |-> reader.table_data,
                    after_touch |-> reader.after_touch]
    /\ lastMutation' = NoCall
    /\ UNCHANGED <<table, metadata, touched, unchanged, writerPc, raceOthers>>

\* dynamodb.py:729-730  put_item of the writer: table.put_item(Item=item)
writer_put ==
    /\ writerPc = "idle"
    /\ table.exists
    /\ \E i \in Items : table' = [table EXCEPT !.items = @ \cup {i}]
    /\ writerPc' = "touch"
    /\ unchanged' = FALSE
    /\ lastScan' = NoCall
    /\ lastMutation' = NoCall
    /\ UNCHANGED <<metadata, snapshot, touched, reader, raceOthers>>

\* dynamodb.py:731  self.metadata_table.update_table_mtime()
writer_touch ==
    /\ writerPc = "touch"
    /\ metadata' = UpdateTableMtime(metadata, TableName, clock)
    /\ touched' = [touched EXCEPT ![TableName] = clock]
    /\ writerPc' = "done"
    /\ lastScan' = NoCall
    /\ lastMutation' = NoCall
    /\ UNCHANGED <<table, snapshot, unchanged, reader, raceOthers>>

RaceInit ==
    /\ reader = Idle
    /\ writerPc = "idle"

ScanInit ==
    /\ table = NoTable
    /\ metadata = NoMetadata
    /\ snapshot = NoSnapshot
    /\ touched = [n \in MetaNames |-> None]
    /\ unchanged = FALSE
    /\ lastMutation = NoCall
    /\ lastScan = NoCall

(***************************************************************************)
(* make_name_aws_safe (awsimple/pubsub.py).  A string is a sequence of     *)
(* characters.                                                             *)
(***************************************************************************)
Parts == {<<"a">>, <<"b">>, <<"a", "b">>, <<"1">>, <<"7">>}

\* the argument lists of the calls: one or two strings
ArgLists == {<<p>> : p \in Parts} \cup {<<p, q>> : p \in Parts, q \in Parts}

\* pubsub.py:138  "".join(args)
RECURSIVE Join(_)
Join(args) == IF args = <<>> THEN <<>> ELSE Head(args) \o Join(Tail(args))

\* pubsub.py:138  strif.hash_string(s): the SHA-1 digest of the UTF-8 bytes of s,
\* here as ten 16-bit words, most significant first
sha1 ==
       <<>> :> <<55865, 41966, 24171, 19213, 12885, 49135, 38240, 6288, 45016, 1801>>
    @@ <<"1">> :> <<13674, 6443, 30995, 45132, 21591, 19736, 49805, 18150, 14676, 10411>>
    @@ <<"7">> :> <<36907, 41933, 41352, 14337, 22859, 28187, 17703, 37068, 21396, 36826>>
    @@ <<"a">> :> <<34551, 58423, 64165, 43004, 57693, 7644, 47594, 60138, 14198, 26552>>
    @@ <<"b">> :> <<59863, 8030, 59337, 11629, 51689, 12285, 44311, 47293, 18753, 36760>>
    @@ <<"1", "1">> :> <<6074, 1937, 18845, 47368, 17211, 33011, 31839, 48265, 47216, 2123>>
    @@ <<"1", "7">> :> <<1814, 55664, 36146, 8187, 27136, 33158, 5239, 40567, 39205, 13916>>
    @@ <<"1", "a">> :> <<39724, 12928, 52458, 2980, 2087, 3141, 6235, 64461, 13846, 16951>>
    @@ <<"1", "b">> :> <<11665, 41482, 8444, 44720, 44640, 46360, 39809, 3039, 33921, 45527>>
    @@ <<"7", "1">> :> <<53285, 24797, 40317, 46150, 30247, 29787, 54896, 7808, 40956, 42723>>
    @@ <<"7", "7">> :> <<54049, 55031, 52473, 35665, 21518, 51673, 13298, 2200, 44859, 55070>>
    @@ <<"7", "a">> :> <<46127, 4404, 25099, 30723, 60807, 17568, 15966, 14570, 60494, 12134>>
    @@ <<"7", "b">> :> <<32236, 31022, 38087, 18086, 36462, 52146, 6214, 50373, 38091, 59338>>
    @@ <<"a", "1">> :> <<62107, 51483, 48555, 5791, 49344, 41766, 38489, 21457, 7293, 65411>>
    @@ <<"a", "7">> :> <<28433, 12938, 65498, 42512, 23049, 43021, 18866, 38580, 11245, 58895>>
    @@ <<"a", "a">> :> <<57545, 856, 39133, 21244, 26052, 5204, 52937, 50386, 24859, 64311>>
    @@ <<"a", "b">> :> <<55843, 24910, 582, 39437, 31867, 53693, 43868, 40007, 19225, 1244>>
    @@ <<"b", "1">> :> <<32387, 51754, 26070, 63754, 32924, 34160, 50889, 1449, 16824, 30514>>
    @@ <<"b", "7">> :> <<53423, 15493, 23949, 29671, 11687, 44946, 58203, 22993, 26390, 1643>>
    @@ <<"b", "a">> :> <<27653, 38584, 44128, 37265, 6170, 36945, 32081, 49332, 34546, 14233>>
    @@ <<"b", "b">> :> <<39568, 3923, 35173, 42022, 39246, 7824, 24585, 8367, 61620, 59602>>
    @@ <<"1", "a", "b">> :> <<23209, 44133, 29169, 12257, 12239, 40735, 19025, 51874, 39495, 65279>>
    @@ <<"7", "a", "b">> :> <<23727, 23588, 31896, 20631, 24575, 32122, 39893, 54898, 31155, 41639>>
    @@ <<"a", "a", "b">> :> <<16569, 1277, 34898, 10621, 44718, 46118, 45500, 42095, 53829, 19107>>
    @@ <<"a", "b", "1">> :> <<57717, 59980, 57509, 21286, 2580, 48222, 37418, 37723, 16450, 23582>>
    @@ <<"a", "b", "7">> :> <<20590, 50852, 16524, 51592, 24547, 25124, 19161, 31356, 30900, 59424>>
    @@ <<"a", "b", "a">> :> <<19806, 52473, 14137, 50736, 23215, 35177, 42626, 52311, 57853, 29589>>
    @@ <<"a", "b", "b">> :> <<50765, 16333, 57868, 23760, 12610, 5918, 23236, 31367, 43580, 35534>>
    @@ <<"b", "a", "b">> :> <<34684, 34764, 39973, 6392, 63305, 25769, 17741, 29688, 48006, 65494>>
    @@ <<"a", "b", "a", "b">> :> <<19482, 52932, 25183, 19071, 26263, 17366, 25643, 30197, 50359, 5018>>
    @@ <<"p", "s", "f", "r", "k", "h", "g", "3", "e", "w", "x", "o", "v", "0", "h", "1", "g", "2", "e", "h",
         "8", "7", "f", "r", "i", "7", "z", "1", "g", "1", "2", "n", "s", "1">>
        :> <<31817, 37767, 3543, 52782, 43902, 17703, 18098, 37012, 22736, 5891>>
    @@ <<"p", "s", "f", "r", "k", "h", "g", "3", "e", "w", "x", "o", "v", "0", "h", "1", "g", "2", "e", "h",
         "8", "7", "f", "r", "i", "7", "z", "1", "g", "1", "2", "n", "s", "7">>
        :> <<2463, 36820, 23539, 18652, 30414, 64921, 3016, 58290, 3141, 63094>>

LimbBase == 65536

Alphabet == <<"0", "1", "2", "3", "4", "5", "6", "7", "8", "9", "a", "b", "c", "d", "e", "f", "g", "h",
              "i", "j", "k", "l", "m", "n", "o", "p", "q", "r", "s", "t", "u", "v", "w", "x", "y", "z">>

\* the quotient and the remainder of the number with words limbs divided by 36
RECURSIVE DivMod36(_, _, _, _)
DivMod36(limbs, i, r, q) ==
    IF i > Len(limbs) THEN [q |-> q, r |-> r]
    ELSE LET n == r * LimbBase + limbs[i]
         IN DivMod36(limbs, i + 1, n % Len(Alphabet), Append(q, n \div Len(Alphabet)))

\* pubsub.py:138  Hash.base36: the digest as a number written in base 36, which
\* has no leading zeros
RECURSIVE base36_encode(_, _)
base36_encode(limbs, digits) ==
    IF \A i \in 1..Len(limbs) : limbs[i] = 0
    THEN IF digits = <<>> THEN <<"0">> ELSE digits
    ELSE LET d == DivMod36(limbs, 1, 0, <<>>)
         IN base36_encode(d.q, <<Alphabet[d.r + 1]>> \o digits)

\* pubsub.py:139  assert len(base36) == 31
NameLength == 31

\* pubsub.py:129-140  make_name_aws_safe(*args): the name, or AssertionError
make_name_aws_safe(args) ==
    LET base36 == base36_encode(sha1[Join(args)], <<>>)
    IN /\ nameCall' = IF Len(base36) = NameLength
                      THEN [called |-> TRUE, args |-> args, raised |-> FALSE, name |-> base36]
                      ELSE [called |-> TRUE, args |-> args, raised |-> TRUE, name |-> <<>>]
       /\ namePrev' = nameCall
       /\ UNCHANGED <<cacheVars, scanVars, mivVars, raceVars, s3Vars, reapVars, psVars>>

\* pubsub.py:31
AWS_RESOURCE_PREFIX == <<"p", "s">>

\* pubsub.py:138-140  the name make_name_aws_safe returns
hash_base36(args) == base36_encode(sha1[Join(args)], <<>>)

\* pubsub.py:166  self.channel
ChannelName(channel) == AWS_RESOURCE_PREFIX \o hash_base36(<<channel>>)

ChannelPrefixedName(channel, node_name) == ChannelName(channel) \o node_name

\* pubsub.py:168  self.sqs_queue_name
SqsQueueName(channel, node_name) ==
    AWS_RESOURCE_PREFIX \o hash_base36(<<ChannelName(channel), node_name>>)

MakeNameAwsSafe == \E args \in ArgLists : make_name_aws_safe(args)

NameInit ==
    /\ nameCall = NoCall
    /\ namePrev = NoCall

(***************************************************************************)
(* S3Access.download_cached (awsimple/s3.py), on the cache directory of    *)
(* lru_cache_write.                                                        *)
(***************************************************************************)
Contents == {"A", "B"}

\* the number of bytes of each content
ContentSize == [c \in Contents |-> IF c = "A" THEN 1 ELSE 2]

\* s3.py:199  get_file_sha512: the name of the cache file of each content
get_file_sha512 == [c \in Contents |-> IF c = "A" THEN 1 ELSE 2]

NoObject == [exists |-> FALSE, content |-> None, sha512 |-> None]
NoDest == [exists |-> FALSE, content |-> None]

\* s3.py:186-244  upload(file_path, s3_key): the object and its sha512 metadata
\* are replaced unless the object already has the file's sha512
upload ==
    \E c \in Contents :
        /\ remote' = [exists |-> TRUE, content |-> c, sha512 |-> get_file_sha512[c]]
        /\ sinceDownload' = IF ~remote.exists THEN "created"
                            ELSE IF remote.content # c THEN "replaced"
                            ELSE sinceDownload
        /\ lastDownload' = NoCall
        /\ UNCHANGED <<dest, cacheContent, cacheVars, scanVars, nameVars, mivVars, raceVars, reapVars, psVars>>

\* test_s3_file_transfer.py:145  dest_path.unlink()
unlink_dest ==
    /\ dest.exists
    /\ dest' = NoDest
    /\ lastDownload' = NoCall
    /\ UNCHANGED <<remote, cacheContent, sinceDownload, cacheVars, scanVars, nameVars, mivVars, raceVars, reapVars, psVars>>

\* s3.py:295-333  download: the object written to dest_path, or dest_path as it
\* was when download_file failed retry_count times
download(downloaded) ==
    IF downloaded THEN [exists |-> TRUE, content |-> remote.content] ELSE dest

\* s3.py:335-369  download_cached(s3_key, dest_path)
download_cached(downloaded, max_absolute, portion, free) ==
    LET sha512 == remote.sha512                                   \* s3.py:348
        max == max_cache_size(max_absolute, portion, free)
        status(hit, write, d) ==
            [called |-> TRUE, raised |-> FALSE, success |-> TRUE, cache_hit |-> hit, cache_write |-> write,
             delivered |-> d, object |-> remote.content, since |-> sinceDownload, downloaded |-> downloaded]
    IN IF ~remote.exists
       THEN \* s3.py:458  get_s3_object_metadata raises AWSimpleException
            /\ lastDownload' = [called |-> TRUE, raised |-> TRUE]
            /\ UNCHANGED <<remote, dest, cacheContent, sinceDownload, cacheVars, scanVars, nameVars, mivVars, raceVars, reapVars, psVars>>
       ELSE IF cache[sha512] # NoFile
       THEN \* s3.py:352-357  cache hit: copy2(cache_path, dest_path)
            /\ dest' = [exists |-> TRUE, content |-> cacheContent[sha512]]
            /\ cache' = [cache EXCEPT ![sha512].atime = clock]
            /\ lastDownload' = status(TRUE, None, dest')
            /\ sinceDownload' = "unchanged"
            /\ UNCHANGED <<remote, cacheContent, clock, lastWrite, scanVars, nameVars, mivVars, raceVars, reapVars, psVars>>
       ELSE \* s3.py:361-367  cache miss
            /\ dest' = download(downloaded)
            /\ sinceDownload' = "unchanged"
            /\ IF ~dest'.exists
               THEN \* cache.py:60,123  getsize raises FileNotFoundError, which is caught
                    /\ lastDownload' = status(FALSE, FALSE, dest')
                    /\ UNCHANGED <<cache, cacheContent>>
               ELSE \E o \in WriteOutcomes(cache, ContentSize[dest'.content], max, {}) :
                    /\ cache' = IF o.is_room
                                THEN [o.dir EXCEPT ![sha512] = [size |-> ContentSize[dest'.content], atime |-> clock]]
                                ELSE o.dir
                    /\ cacheContent' = [f \in FileNames |->
                                            IF o.is_room /\ f = sha512 THEN dest'.content
                                            ELSE IF o.dir[f] = NoFile THEN None
                                            ELSE cacheContent[f]]
                    /\ lastDownload' = status(FALSE, o.is_room, dest')
            /\ UNCHANGED <<remote, clock, lastWrite, scanVars, nameVars, mivVars, raceVars, reapVars, psVars>>

DownloadCached ==
    \E downloaded \in BOOLEAN, max_absolute \in AbsoluteCeilings, portion \in PortionNums, free \in DiskFrees :
        download_cached(downloaded, max_absolute, portion, free)

S3Init ==
    /\ remote = NoObject
    /\ dest = NoDest
    /\ cacheContent = [f \in FileNames |-> None]
    /\ sinceDownload = "absent"
    /\ lastDownload = NoCall

S3Next == upload \/ unlink_dest \/ DownloadCached

(***************************************************************************)
(* remove_old_queues (awsimple/pubsub.py), on the metadata table above.    *)
(***************************************************************************)
\* pubsub.py:27  timedelta(days=30).total_seconds()
queue_timeout == 2592000

\* the clock of the reaper model runs to queue_timeout + MaxExtra seconds
MaxExtra == 1

Channels == {"", "p", "ps", "psx"}

\* the characters of each name
Spelling ==
       "" :> <<>>
    @@ "p" :> <<"p">>
    @@ "ps" :> <<"p", "s">>
    @@ "psx" :> <<"p", "s", "x">>
    @@ "psy" :> <<"p", "s", "y">>
    @@ "zz" :> <<"z", "z">>
    @@ "channel a" :> ChannelName(<<"a">>)
    @@ "a/1" :> SqsQueueName(<<"a">>, <<"1">>)
    @@ "a/7" :> SqsQueueName(<<"a">>, <<"7">>)

\* what delete_queue of a listed queue does: it deletes the queue, or raises
\* a ClientError because the queue was deleted meanwhile, or for another reason
DeleteOutcomes == {"deleted", "QueueDoesNotExist", "AccessDenied"}

\* the names of the existing queues that start with prefix
get_all_sqs_queues(prefix) ==
    {q \in queues :
        /\ Len(Spelling[prefix]) <= Len(Spelling[q])
        /\ SubSeq(Spelling[q], 1, Len(Spelling[prefix])) = Spelling[prefix]}

OnlyBlankChannel(channel) == Len(Spelling[channel]) < 1

\* pubsub.py:41  len(channel) < 2
BlankChannel(channel) == Len(Spelling[channel]) < 2

AnyRecord(mtime, now) == mtime # None

\* pubsub.py:49  mtime is not None and time.time() - mtime > queue_timeout
Old(mtime, now) == mtime # None /\ now - mtime > queue_timeout

\* pubsub.py:34-58  remove_old_queues(channel)
remove_old_queues(channel, outcome) ==
    LET call == [called |-> TRUE, channel |-> channel, now |-> clock, before |-> queues,
                 mtime |-> [q \in ReapNames \cup NodeQueues |-> GetTableMtimeF(metadata, q)]]
        returned(listed, attempted, after) ==
            call @@ [raised |-> FALSE, listed |-> listed, attempted |-> attempted, outcome |-> outcome,
                     removed |-> attempted, after |-> after]
    IN IF BlankChannel(channel)
       THEN /\ lastReap' = returned({}, {}, queues)
            /\ UNCHANGED queues
       ELSE LET listed == get_all_sqs_queues(channel)
                attempted == {q \in listed : Old(GetTableMtimeF(metadata, q), clock)}
            IN IF listed # {} /\ GetTableMtimeF(metadata, CHOOSE q \in listed : TRUE) = Raised
               THEN \* pubsub.py:48  get_table_mtime_f raises
                    /\ lastReap' = call @@ [raised |-> TRUE, listed |-> listed, attempted |-> {},
                                            outcome |-> outcome, removed |-> {}, after |-> queues]
                    /\ UNCHANGED queues
               ELSE /\ DOMAIN outcome = attempted
                    /\ queues' = queues \ {q \in attempted : outcome[q] # "AccessDenied"}
                    /\ lastReap' = returned(listed, attempted, queues')

\* delete_queue is called on the queues in attempted only
RemoveOldQueues ==
    \E channel \in Channels, attempted \in SUBSET ReapNames :
        \E outcome \in [attempted -> DeleteOutcomes] :
            /\ remove_old_queues(channel, outcome)
            /\ lastReap'.attempted = attempted
            /\ UNCHANGED <<nodePc, cacheVars, scanVars, nameVars, mivVars, raceVars, s3Vars, psVars>>

\* sqs.py:100-106  create_queue
create_queue ==
    \E q \in ReapNames \ queues :
        /\ queues' = queues \cup {q}
        /\ lastReap' = NoCall
        /\ UNCHANGED <<nodePc, cacheVars, scanVars, nameVars, mivVars, raceVars, s3Vars, psVars>>

\* pubsub.py:218  sqs_metadata.update_table_mtime() of a coordinator's queue
touch_queue ==
    \E q \in queues :
        /\ metadata' = UpdateTableMtime(metadata, q, clock)
        /\ touched' = [touched EXCEPT ![q] = clock]
        /\ lastReap' = NoCall
        /\ UNCHANGED <<table, snapshot, unchanged, lastMutation, lastScan, cacheVars, nameVars, mivVars, raceVars, s3Vars, psVars,
                       queues, nodePc>>

\* the instants of the reaper model: the first second, and queue_timeout and after
ReapTimes == {1} \cup {queue_timeout + e : e \in 0..MaxExtra}

\* time passes up to a later instant
ReapSleep ==
    \E t \in ReapTimes :
        /\ t > clock
        /\ clock' = t
        /\ lastReap' = NoCall
        /\ UNCHANGED <<cache, lastWrite, scanVars, nameVars, mivVars, raceVars, s3Vars, psVars, queues, nodePc>>

\* the variables that the coordinator of a node leaves alone
nodeOthers == <<cacheVars, nameVars, mivVars, raceVars, s3Vars, psVars>>

\* pubsub.py:204-208  run of the coordinator of a node: sqs.exists(), create_queue()
node_provision(q) ==
    /\ nodePc[q] = "idle"
    /\ nodePc' = [nodePc EXCEPT ![q] = "touch"]
    /\ queues' = queues \cup {q}
    /\ lastReap' = NoCall
    /\ UNCHANGED <<scanVars, nodeOthers>>

\* pubsub.py:218  sqs_metadata.update_table_mtime()
node_touch(q) ==
    /\ nodePc[q] = "touch"
    /\ nodePc' = [nodePc EXCEPT ![q] = "reap"]
    /\ metadata' = UpdateTableMtime(metadata, q, clock)
    /\ touched' = [touched EXCEPT ![q] = clock]
    /\ lastReap' = NoCall
    /\ UNCHANGED <<table, snapshot, unchanged, lastMutation, lastScan, queues, nodeOthers>>

\* pubsub.py:219-226  remove_old_queues(self.channel), then the pump is started
node_reap(q) ==
    /\ nodePc[q] = "reap"
    /\ nodePc' = [nodePc EXCEPT ![q] = "running"]
    /\ \E attempted \in SUBSET NodeQueues :
        \E outcome \in [attempted -> DeleteOutcomes] :
            remove_old_queues("channel a", outcome)
    /\ UNCHANGED <<scanVars, nodeOthers>>

\* pubsub.py:238-249  a message is dispatched: sqs_metadata.update_table_mtime()
node_dispatch(q) ==
    /\ nodePc[q] = "running"
    /\ metadata' = UpdateTableMtime(metadata, q, clock)
    /\ touched' = [touched EXCEPT ![q] = clock]
    /\ lastReap' = NoCall
    /\ UNCHANGED <<table, snapshot, unchanged, lastMutation, lastScan, queues, nodePc, nodeOthers>>

\* pubsub.py:254-265  request_exit(): the pump is asked to exit and run returns
node_exit(q) ==
    /\ nodePc[q] = "running"
    /\ nodePc' = [nodePc EXCEPT ![q] = "idle"]
    /\ lastReap' = NoCall
    /\ UNCHANGED <<queues, scanVars, nodeOthers>>

ReapInit ==
    /\ queues = {}
    /\ lastReap = NoCall
    /\ nodePc = [q \in NodeQueues |-> "idle"]

\* the coordinators of the nodes of one channel, over time
ChannelNext ==
    \/ \E q \in NodeQueues :
        node_provision(q) \/ node_touch(q) \/ node_reap(q) \/ node_dispatch(q) \/ node_exit(q)
    \/ ReapSleep

ReapNext == RemoveOldQueues \/ create_queue \/ touch_queue \/ ReapSleep

(***************************************************************************)
(* DynamoDBMIVUI.put_item (awsimple/dynamodb_miv.py): the items of one     *)
(* partition value, written by processes with clocks of their own.         *)
(***************************************************************************)
\* the processes that call put_item
Writers == {"w1", "w2"}

\* the put_item calls
MaxPuts == 3

\* the microsecond readings of the writers' clocks
MaxUs == 3

Max(S) == CHOOSE x \in S : \A y \in S : x >= y

\* dynamodb_miv.py:92-105  get_most_senior_item: the miv of the item with the
\* greatest miv, or None for DBItemNotFound (dynamodb_miv.py:70-74)
ExistingMivUi(items) == IF items = {} THEN None ELSE Max({i.mivui : i \in items})

\* dynamodb_miv.py:76-81  new_miv_ui
NewMivUi(existing_miv_ui, current_time_us) ==
    IF existing_miv_ui = None \/ current_time_us > existing_miv_ui
    THEN current_time_us
    ELSE existing_miv_ui + 1

\* dynamodb_miv.py:86-90  table.put_item(Item=new_item): the item with the same
\* primary key (partition value, miv) is replaced
TablePutItem(items, new_item) == {i \in items : i.mivui # new_item.mivui} \cup {new_item}

\* the variables outside the model of the miv table
mivOthers == <<cacheVars, scanVars, nameVars, raceVars, s3Vars, reapVars, psVars>>

\* dynamodb_miv.py:67-74  put_item(item): the query for the most senior item
miv_query(w) ==
    /\ mivWriters[w].pc = "idle"
    /\ Len(mivPuts) + Cardinality({v \in Writers : mivWriters[v].pc = "put"}) < MaxPuts
    /\ mivWriters' = [mivWriters EXCEPT ![w] = [pc |-> "put", existing_miv_ui |-> ExistingMivUi(mivItems)]]
    /\ UNCHANGED <<mivItems, mivPuts, mivOthers>>

\* dynamodb_miv.py:76-90  put_item(item): get_time_us(), new_miv_ui, table.put_item.
\* No two readings of the clocks are equal.
miv_put(w) ==
    /\ mivWriters[w].pc = "put"
    /\ \E current_time_us \in 1..MaxUs :
        /\ \A i \in 1..Len(mivPuts) : mivPuts[i].time_us # current_time_us
        /\ LET new_miv_ui == NewMivUi(mivWriters[w].existing_miv_ui, current_time_us)
               put == Len(mivPuts) + 1
           IN /\ mivItems' = TablePutItem(mivItems, [mivui |-> new_miv_ui, put |-> put])
              /\ mivPuts' = Append(mivPuts, [writer |-> w, time_us |-> current_time_us, mivui |-> new_miv_ui,
                                             stored |-> {i.mivui : i \in mivItems}])
    /\ mivWriters' = [mivWriters EXCEPT ![w] = [pc |-> "idle", existing_miv_ui |-> None]]
    /\ UNCHANGED mivOthers

MivInit ==
    /\ mivItems = {}
    /\ mivWriters = [w \in Writers |-> [pc |-> "idle", existing_miv_ui |-> None]]
    /\ mivPuts = <<>>

MivNext == \E w \in Writers : miv_query(w) \/ miv_put(w)

(***************************************************************************)
(* The pub/sub coordinator _PubSub and its pump _SubscriptionThread        *)
(* (awsimple/pubsub.py): one coordinator that publishes to the channel's   *)
(* SNS topic and whose own SQS queue is subscribed to that topic.          *)
(***************************************************************************)
MaxMessages == 2

\* the variables outside the pub/sub model
psOthers == <<cacheVars, scanVars, nameVars, mivVars, raceVars, s3Vars, reapVars>>

\* the dicts passed to publish(): {"number": 1} as in test_pubsub_callback.py, and {2: 2}
Dicts == {[keys |-> "str", number |-> n] : n \in 1..(MaxMessages - 1)}
            \cup {[keys |-> "int", number |-> MaxMessages]}

\* pubsub.py:233  json.dumps(message): the keys of a JSON object are strings
json_dumps(message) == [json |-> [keys |-> "str", number |-> message.number]]

\* pubsub.py:121,245,353  json.loads(string)
json_loads(string) == string.json

\* the body of the SQS message by which SNS delivers a published string
Notification(message_string) == [json |-> [Message |-> message_string]]

\* a body that is not JSON, sent to the queue by another producer
NotJson == [text |-> "not json"]

\* json.loads(string) returns; otherwise it raises json.JSONDecodeError
Decodable(string) == "json" \in DOMAIN string

\* the number of undecodable bodies sent to the coordinator's queue
MaxUndecodable == 1

\* what sns.publish does: it publishes, or raises a ClientError
PublishOutcomes == {"published", "ClientError"}

NoLog == [published |-> <<>>, handed |-> <<>>, taken |-> <<>>, dispatched |-> <<>>, called_back |-> <<>>,
          put |-> <<>>, returned |-> <<>>, get |-> NoCall, startup |-> <<>>, touches |-> <<>>,
          accepted_at_exit |-> None]

\* pubsub.py:221  sqs_thread is not None
IsSubscriber == sub_callback \/ use_sub_queue

\* pubsub.py:145-183  _PubSub.__init__(channel, node_name, sub_callback, sub_poll)
PubSubNew ==
    /\ pc = "none"
    /\ pc' = "new"
    /\ sub_callback' \in BOOLEAN
    /\ use_sub_queue' \in BOOLEAN
    /\ UNCHANGED <<node_queue, threadPc, pub_queue, thread_sub_queue, sub_queue, exit_event, new_event,
                   thread_exit_event, batch, sqs_messages, log, psOthers>>

\* Thread.start() of the coordinator
start ==
    /\ pc = "new"
    /\ pc' = "provision"
    /\ UNCHANGED <<node_queue, sub_callback, use_sub_queue, threadPc, pub_queue, thread_sub_queue, sub_queue,
                   exit_event, new_event, thread_exit_event, batch, sqs_messages, log, psOthers>>

\* pubsub.py:296-304  publish(message)
publish ==
    \E message \in Dicts :
        /\ pc # "none"
        /\ \A i \in 1..Len(log.published) : log.published[i] # message
        /\ pub_queue' = Append(pub_queue, message)
        /\ new_event' = TRUE
        /\ log' = [log EXCEPT !.published = Append(@, message)]
        /\ UNCHANGED <<node_queue, sub_callback, use_sub_queue, pc, threadPc, thread_sub_queue, sub_queue,
                       exit_event, thread_exit_event, batch, sqs_messages, psOthers>>

\* pubsub.py:260-265  request_exit()
request_exit ==
    /\ pc # "none"
    /\ ~exit_event
    /\ exit_event' = TRUE
    /\ new_event' = TRUE
    /\ log' = [log EXCEPT !.accepted_at_exit = Len(log.published)]
    /\ UNCHANGED <<node_queue, sub_callback, use_sub_queue, pc, threadPc, pub_queue, thread_sub_queue, sub_queue,
                   thread_exit_event, batch, sqs_messages, psOthers>>

RECURSIVE LoadAll(_)
LoadAll(strings) ==
    IF strings = <<>> THEN <<>> ELSE <<json_loads(Head(strings))>> \o LoadAll(Tail(strings))

GetWithoutRemoving(inbox) == inbox

\* pubsub.py:350-357  get(block=False) until Empty
DrainAll(inbox) == <<>>

\* pubsub.py:340-358  get_messages()
get_messages ==
    /\ pc # "none"
    /\ IF ~use_sub_queue
       THEN \* RuntimeError
            /\ log' = [log EXCEPT !.get = [called |-> TRUE, raised |-> TRUE, before |-> sub_queue,
                                           messages |-> <<>>, after |-> sub_queue]]
            /\ UNCHANGED sub_queue
       ELSE /\ sub_queue' = DrainAll(sub_queue)
            /\ log' = [log EXCEPT !.get = [called |-> TRUE, raised |-> FALSE, before |-> sub_queue,
                                           messages |-> LoadAll(sub_queue), after |-> sub_queue'],
                                  !.returned = @ \o LoadAll(sub_queue)]
    /\ UNCHANGED <<node_queue, sub_callback, use_sub_queue, pc, threadPc, pub_queue, thread_sub_queue,
                   exit_event, new_event, thread_exit_event, batch, sqs_messages, psOthers>>

PumpBeforeReaper ==
    <<"provision", "create_queue", "subscribe", "set_attributes", "touch", "start_pump", "reap", "test">>

\* pubsub.py:187-228  the order of the statements of run before its loop
StartupOrder ==
    <<"provision", "create_queue", "subscribe", "set_attributes", "touch", "reap", "start_pump", "test">>

\* the statement after step
Following(step) == StartupOrder[(CHOOSE i \in 1..Len(StartupOrder) : StartupOrder[i] = step) + 1]

\* what a request of _connect_sns_to_sqs does: it succeeds, or raises a ClientError
WiringOutcomes == {"ok", "ClientError"}

SwallowError(outcome, step) == Following(step)

\* pubsub.py:216, 61-101  neither run nor _connect_sns_to_sqs has a handler:
\* a ClientError leaves run
AfterWiring(outcome, step) == IF outcome = "ok" THEN Following(step) ELSE "crashed"

\* the variables of the coordinator that its startup statements leave alone
psStartup == <<sub_callback, use_sub_queue, threadPc, pub_queue, thread_sub_queue, sub_queue,
               exit_event, new_event, thread_exit_event, batch, sqs_messages>>

\* no queue of the node's name
NoQueue == [exists |-> FALSE, subscribed |-> FALSE, policy |-> FALSE]

\* pubsub.py:187-207  run: the access objects; sqs.exists()
provision ==
    /\ pc = "provision"
    /\ LET exists == node_queue.exists
       IN /\ pc' = IF exists THEN "touch" ELSE Following("provision")
          /\ log' = [log EXCEPT !.startup = Append(@, IF exists THEN "exists" ELSE "missing")]
    /\ UNCHANGED <<node_queue, psStartup, psOthers>>

\* pubsub.py:208  sqs.create_queue()
run_create_queue ==
    /\ pc = "create_queue"
    /\ pc' = Following("create_queue")
    /\ node_queue' = [node_queue EXCEPT !.exists = TRUE]
    /\ log' = [log EXCEPT !.startup = Append(@, "create_queue")]
    /\ UNCHANGED <<psStartup, psOthers>>

\* pubsub.py:71-82  _connect_sns_to_sqs: create_topic, topic.subscribe
run_subscribe ==
    /\ pc = "subscribe"
    /\ \E outcome \in WiringOutcomes :
        /\ pc' = AfterWiring(outcome, "subscribe")
        /\ node_queue' = [node_queue EXCEPT !.subscribed = (outcome = "ok")]
        /\ log' = [log EXCEPT !.startup = Append(@, IF outcome = "ok" THEN "subscribe" ELSE "subscribe failed")]
    /\ UNCHANGED <<psStartup, psOthers>>

\* pubsub.py:84-101  _connect_sns_to_sqs: queue.set_attributes of the policy
run_set_attributes ==
    /\ pc = "set_attributes"
    /\ \E outcome \in WiringOutcomes :
        /\ pc' = AfterWiring(outcome, "set_attributes")
        /\ node_queue' = [node_queue EXCEPT !.policy = (outcome = "ok")]
        /\ log' = [log EXCEPT !.startup = Append(@, IF outcome = "ok" THEN "set_attributes"
                                                    ELSE "set_attributes failed")]
    /\ UNCHANGED <<psStartup, psOthers>>

\* pubsub.py:218  sqs_metadata.update_table_mtime()
run_touch ==
    /\ pc = "touch"
    /\ pc' = Following("touch")
    /\ \E q \in QueueNames :
        /\ metadata' = UpdateTableMtime(metadata, q, clock)
        /\ touched' = [touched EXCEPT ![q] = clock]
    /\ log' = [log EXCEPT !.startup = Append(@, "update_table_mtime")]
    /\ UNCHANGED <<node_queue, psStartup, cacheVars, table, snapshot, unchanged, lastMutation, lastScan,
                   nameVars, mivVars, raceVars, s3Vars, reapVars>>

\* pubsub.py:219  remove_old_queues(self.channel): no other queue of the channel exists
run_remove_old_queues ==
    /\ pc = "reap"
    /\ pc' = Following("reap")
    /\ remove_old_queues("psx", CHOOSE outcome \in [{} -> DeleteOutcomes] : TRUE)
    /\ log' = [log EXCEPT !.startup = Append(@, "remove_old_queues")]
    /\ UNCHANGED <<node_queue, psStartup, nodePc, cacheVars, scanVars, nameVars, mivVars, raceVars, s3Vars>>

\* pubsub.py:221-226  run: sqs_thread.start() unless not used as a subscriber
start_pump ==
    /\ pc = "start_pump"
    /\ pc' = Following("start_pump")
    /\ threadPc' = IF IsSubscriber THEN "test" ELSE threadPc
    /\ log' = [log EXCEPT !.startup = IF IsSubscriber THEN Append(@, "sqs_thread.start") ELSE @]
    /\ UNCHANGED <<node_queue, sub_callback, use_sub_queue, pub_queue, thread_sub_queue, sub_queue,
                   exit_event, new_event, thread_exit_event, batch, sqs_messages, psOthers>>

\* pubsub.py:228  while not self._exit_event.is_set()
loop_test ==
    /\ pc = "test"
    /\ pc' = IF exit_event THEN "stop" ELSE "pub"
    /\ UNCHANGED <<node_queue, sub_callback, use_sub_queue, threadPc, pub_queue, thread_sub_queue, sub_queue,
                   exit_event, new_event, thread_exit_event, batch, sqs_messages, log, psOthers>>

LifoGet(queue) == [item |-> queue[Len(queue)], rest |-> SubSeq(queue, 1, Len(queue) - 1)]

\* pubsub.py:232,241  queue.Queue.get(False) of a queue that is not empty: the
\* item put first, and the queue without it
QueueGet(queue) == [item |-> Head(queue), rest |-> Tail(queue)]

\* pubsub.py:231-236  only Empty is caught: a ClientError of sns.publish leaves run
AfterPublish(outcome) == IF outcome = "published" THEN "sub" ELSE "crashed"

\* pubsub.py:230-236  run: pub
pub_step ==
    /\ pc = "pub"
    /\ IF pub_queue = <<>>
       THEN /\ pc' = "sub"
            /\ UNCHANGED <<pub_queue, sqs_messages, log>>
       ELSE \E outcome \in PublishOutcomes :
            LET message_string == json_dumps(QueueGet(pub_queue).item)
            IN /\ pub_queue' = QueueGet(pub_queue).rest
               /\ pc' = AfterPublish(outcome)
               /\ IF outcome = "published"
                  THEN /\ sqs_messages' = Append(sqs_messages, Notification(message_string))
                       /\ log' = [log EXCEPT !.handed = Append(@, message_string)]
                  ELSE UNCHANGED <<sqs_messages, log>>
    /\ UNCHANGED <<node_queue, sub_callback, use_sub_queue, threadPc, thread_sub_queue, sub_queue,
                   exit_event, new_event, thread_exit_event, batch, psOthers>>

\* pubsub.py:238-249  run: sub
sub_step ==
    /\ pc = "sub"
    /\ pc' = "wait"
    /\ IF IsSubscriber /\ thread_sub_queue # <<>>
       THEN LET message_string == QueueGet(thread_sub_queue).item
            IN /\ thread_sub_queue' = QueueGet(thread_sub_queue).rest
               /\ sub_queue' = IF use_sub_queue THEN Append(sub_queue, message_string) ELSE sub_queue
               /\ \E q \in QueueNames :      \* pubsub.py:247  sqs_metadata.update_table_mtime()
                    /\ metadata' = UpdateTableMtime(metadata, q, clock)
                    /\ touched' = [touched EXCEPT ![q] = clock]
               /\ log' = [log EXCEPT
                            !.dispatched = Append(@, message_string),
                            !.put = IF use_sub_queue THEN Append(@, message_string) ELSE @,
                            !.called_back = IF sub_callback THEN Append(@, json_loads(message_string)) ELSE @,
                            !.touches = Append(@, message_string)]
       ELSE UNCHANGED <<thread_sub_queue, sub_queue, log, metadata, touched>>
    /\ UNCHANGED <<node_queue, sub_callback, use_sub_queue, threadPc, pub_queue,
                   exit_event, new_event, thread_exit_event, batch, sqs_messages,
                   cacheVars, table, snapshot, unchanged, lastMutation, lastScan, nameVars, mivVars, raceVars, s3Vars, reapVars>>

\* pubsub.py:251  self._new_event.wait(10) returns because the event is set
wait_set ==
    /\ pc = "wait" /\ new_event
    /\ pc' = "clear"
    /\ UNCHANGED <<node_queue, sub_callback, use_sub_queue, threadPc, pub_queue, thread_sub_queue, sub_queue,
                   exit_event, new_event, thread_exit_event, batch, sqs_messages, log, psOthers>>

\* pubsub.py:251  self._new_event.wait(10) returns after 10 seconds
wait_timeout ==
    /\ pc = "wait" /\ ~new_event
    /\ pc' = "clear"
    /\ UNCHANGED <<node_queue, sub_callback, use_sub_queue, threadPc, pub_queue, thread_sub_queue, sub_queue,
                   exit_event, new_event, thread_exit_event, batch, sqs_messages, log, psOthers>>

\* pubsub.py:252  self._new_event.clear()
clear ==
    /\ pc = "clear"
    /\ new_event' = FALSE
    /\ pc' = "test"
    /\ UNCHANGED <<node_queue, sub_callback, use_sub_queue, threadPc, pub_queue, thread_sub_queue, sub_queue,
                   exit_event, thread_exit_event, batch, sqs_messages, log, psOthers>>

\* pubsub.py:254-255  sqs_thread.request_exit()
stop_pump ==
    /\ pc = "stop"
    /\ pc' = IF IsSubscriber THEN "join" ELSE "done"
    /\ thread_exit_event' = IF IsSubscriber THEN TRUE ELSE thread_exit_event
    /\ UNCHANGED <<node_queue, sub_callback, use_sub_queue, threadPc, pub_queue, thread_sub_queue, sub_queue,
                   exit_event, new_event, batch, sqs_messages, log, psOthers>>

\* pubsub.py:256-258  sqs_thread.join(30): the pump has ended, or 30 seconds have passed
join ==
    /\ pc = "join"
    /\ pc' = "done"
    /\ UNCHANGED <<node_queue, sub_callback, use_sub_queue, threadPc, pub_queue, thread_sub_queue, sub_queue,
                   exit_event, new_event, thread_exit_event, batch, sqs_messages, log, psOthers>>

\* pubsub.py:118  while not self._exit_event.is_set()
thread_test ==
    /\ threadPc = "test"
    /\ threadPc' = IF thread_exit_event THEN "done" ELSE "receive"
    /\ UNCHANGED <<node_queue, sub_callback, use_sub_queue, pc, pub_queue, thread_sub_queue, sub_queue,
                   exit_event, new_event, thread_exit_event, batch, sqs_messages, log, psOthers>>

\* pubsub.py:119, sqs.py:156-220  receive_messages(): a long poll, then short polls
\* until one returns nothing; every message received is deleted from the queue
thread_receive ==
    /\ threadPc = "receive"
    /\ \E k \in 0..Len(sqs_messages) :
        /\ k = 0 => sqs_messages = <<>>
        /\ batch' = SubSeq(sqs_messages, 1, k)
        /\ sqs_messages' = SubSeq(sqs_messages, k + 1, Len(sqs_messages))
        /\ log' = [log EXCEPT !.taken = @ \o batch']
        /\ threadPc' = IF k = 0 THEN "test" ELSE "put"
    /\ UNCHANGED <<node_queue, sub_callback, use_sub_queue, pc, pub_queue, thread_sub_queue, sub_queue,
                   exit_event, new_event, thread_exit_event, psOthers>>

\* pubsub.py:117-123  run has no handler: the JSONDecodeError of json.loads ends the pump
AfterDecodeError(rest) == "crashed"

\* pubsub.py:120-123  for message in messages: one message
thread_put ==
    /\ threadPc = "put"
    /\ IF Decodable(Head(batch))
       THEN /\ thread_sub_queue' = Append(thread_sub_queue, json_loads(Head(batch)).Message)
            /\ new_event' = TRUE
            /\ threadPc' = IF Tail(batch) = <<>> THEN "test" ELSE "put"
       ELSE /\ threadPc' = AfterDecodeError(Tail(batch))
            /\ UNCHANGED <<thread_sub_queue, new_event>>
    /\ batch' = Tail(batch)
    /\ UNCHANGED <<node_queue, sub_callback, use_sub_queue, pc, pub_queue, sub_queue,
                   exit_event, thread_exit_event, sqs_messages, log, psOthers>>

\* sqs.py:268-275  send of another producer to the coordinator's queue, of a body that is not JSON
send_undecodable ==
    /\ pc \notin {"none", "new"}
    /\ Cardinality({i \in 1..Len(sqs_messages) : ~Decodable(sqs_messages[i])})
        + Cardinality({i \in 1..Len(log.taken) : ~Decodable(log.taken[i])}) < MaxUndecodable
    /\ sqs_messages' = Append(sqs_messages, NotJson)
    /\ UNCHANGED <<node_queue, sub_callback, use_sub_queue, pc, threadPc, pub_queue, thread_sub_queue, sub_queue,
                   exit_event, new_event, thread_exit_event, batch, log, psOthers>>

PubSubInit ==
    /\ node_queue = NoQueue
    /\ sub_callback = FALSE
    /\ use_sub_queue = FALSE
    /\ pc = "none"
    /\ threadPc = "none"
    /\ pub_queue = <<>>
    /\ thread_sub_queue = <<>>
    /\ sub_queue = <<>>
    /\ exit_event = FALSE
    /\ new_event = FALSE
    /\ thread_exit_event = FALSE
    /\ batch = <<>>
    /\ sqs_messages = <<>>
    /\ log = NoLog

\* run has ended, by an exception or after request_exit, with no pump left
\* and nothing in the node's queue: the _PubSub object is dropped. A later
\* _PubSub(channel, node_name) of the same channel and node finds the queue
\* as this one left it.
PubSubRestart ==
    /\ pc \in {"crashed", "done"}
    /\ threadPc \in {"none", "done"}
    /\ sqs_messages = <<>>
    /\ pc' = "none"
    /\ sub_callback' = FALSE /\ use_sub_queue' = FALSE
    /\ threadPc' = "none"
    /\ pub_queue' = <<>> /\ thread_sub_queue' = <<>> /\ sub_queue' = <<>>
    /\ exit_event' = FALSE /\ new_event' = FALSE /\ thread_exit_event' = FALSE
    /\ batch' = <<>>
    /\ log' = NoLog
    /\ UNCHANGED <<node_queue, sqs_messages, psOthers>>

\* the steps of the coordinator thread
CoordinatorStep ==
    \/ provision \/ run_create_queue \/ run_subscribe \/ run_set_attributes
    \/ run_touch \/ run_remove_old_queues
    \/ start_pump \/ loop_test \/ pub_step \/ sub_step
    \/ wait_set \/ wait_timeout \/ clear \/ stop_pump \/ join

\* the steps of the pump thread
ThreadStep == thread_test \/ thread_receive \/ thread_put

PubSubNext ==
    \/ PubSubNew \/ start \/ publish \/ request_exit \/ get_messages \/ PubSubRestart
    \/ CoordinatorStep
    \/ ThreadStep

Init == CacheInit /\ ScanInit /\ NameInit /\ S3Init /\ ReapInit /\ PubSubInit /\ MivInit /\ RaceInit

CacheNext == LruCacheWrite \/ ReadCached \/ Tick

CacheSpec == Init /\ [][CacheNext]_vars

\* the cache directory with files that another process holds open or removes
FaultNext == LruCacheWrite \/ LruCacheWriteLocked \/ ReadCached \/ Tick

FaultSpec == Init /\ [][FaultNext]_vars

ScanNext ==
    \/ ScanTableCachedCall
    \/ create_table \/ delete_table \/ put_item \/ delete_item \/ upsert_item
    \/ delete_all_items \/ miv_put_item
    \/ update_table_mtime \/ delete_metadata_table
    \/ CorruptCacheFile \/ Sleep

ScanSpec == Init /\ [][ScanNext]_vars

\* the metadata table under update_table_mtime with failing requests
TouchNext == update_table_mtime_call \/ delete_metadata_table \/ Sleep

TouchSpec == Init /\ [][TouchNext]_vars

\* one writer and one reader of the table, statement by statement, over time
RaceNext ==
    \/ create_table
    \/ reader_check \/ reader_scan \/ reader_dump
    \/ writer_put \/ writer_touch
    \/ Sleep

RaceSpec == Init /\ [][RaceNext]_vars

NameSpec == Init /\ [][MakeNameAwsSafe]_vars

S3Spec == Init /\ [][S3Next]_vars

ReapSpec == Init /\ [][ReapNext]_vars

ChannelSpec == Init /\ [][ChannelNext]_vars

MivSpec == Init /\ [][MivNext]_vars

PubSubSpec == Init /\ [][PubSubNext]_vars

\* the coordinator whose queue also receives bodies that are not JSON
UndecodableSpec == Init /\ [][PubSubNext \/ send_undecodable]_vars

\* both threads are scheduled, and time passes
FairPubSubSpec == PubSubSpec /\ WF_vars(CoordinatorStep) /\ WF_vars(ThreadStep)

(***************************************************************************)
(* Properties of lru_cache_write, checked under CacheSpec.                 *)
(***************************************************************************)
WriteReturned == lastWrite.called

\* C1: immediately after every lru_cache_write call that returns True under a
\* configured ceiling, the total size of the cache directory is at most that
\* call's effective ceiling.
C1_EvictionBound ==
    (WriteReturned /\ lastWrite.ret /\ lastWrite.max # None)
        => get_directory_size(cache) <= lastWrite.max

\* a successful write that needed an eviction and fills the cache to its ceiling
C1_Witness ==
    /\ WriteReturned /\ lastWrite.ret /\ lastWrite.max # None
    /\ Len(lastWrite.evicted) >= 1
    /\ get_directory_size(cache) = lastWrite.max

\* C2: when the new item's size alone exceeds the effective ceiling, the call
\* returns False, evicts no file and leaves the cache directory exactly as it was.
C2_OversizedRefused ==
    [][(lastWrite'.called /\ lastWrite'.max # None /\ lastWrite'.new_size > lastWrite'.max)
        => (~lastWrite'.ret /\ lastWrite'.evicted = <<>> /\ cache' = cache)]_cacheVars

\* an oversized item was refused while the cache held files that could have been evicted
C2_Witness ==
    /\ WriteReturned /\ lastWrite.max # None /\ lastWrite.new_size > lastWrite.max
    /\ ~lastWrite.ret
    /\ Present(cache) # {}

\* the cache directory at the start of eviction round i of a call that began with dir
DirAtRound(dir, evicted, i) ==
    [f \in FileNames |-> IF \E j \in 1..(i - 1) : evicted[j].path = f THEN NoFile ELSE dir[f]]

\* C3: every file lru_cache_write evicts is, at the moment it is deleted, a file
\* with the oldest access time among all files then present in the cache directory.
C3_EvictsOldestAccessed ==
    [][lastWrite'.called =>
        \A i \in 1..Len(lastWrite'.evicted) :
            LET dir == DirAtRound(cache, lastWrite'.evicted, i)
                e == lastWrite'.evicted[i]
            IN /\ dir[e.path] # NoFile
               /\ e.access_time = dir[e.path].atime
               /\ \A g \in Present(dir) : e.access_time <= dir[g].atime]_cacheVars

\* exactly one eviction, of a file strictly older-accessed than the file that was kept
C3_Witness ==
    /\ WriteReturned /\ lastWrite.ret
    /\ Len(lastWrite.evicted) = 1
    /\ lastWrite.name = lastWrite.evicted[1].path
    /\ \E g \in Present(cache) :
        g # lastWrite.name /\ cache[g].atime > lastWrite.evicted[1].access_time

\* C4: a write of an item whose size is at most the effective ceiling returns True,
\* whatever the cache directory held before.
C4_FittingItemWritten ==
    (WriteReturned /\ lastWrite.max # None /\ lastWrite.new_size <= lastWrite.max)
        => lastWrite.ret

\* the overage at the end of round i of a call that began with starting_overage
RECURSIVE OverageAfter(_, _, _)
OverageAfter(starting_overage, evicted, i) ==
    IF i = 0 THEN starting_overage
    ELSE OverageAfter(starting_overage, evicted, i - 1) - evicted[i].size

\* C20: the eviction loop of lru_cache_write terminates: every round starts with
\* a positive overage and either strictly reduces it or is the last round, and
\* there are at most as many rounds as files in the cache directory at the call.
C20_EvictionTerminates ==
    [][(lastWrite'.called /\ lastWrite'.max # None /\ lastWrite'.new_size <= lastWrite'.max) =>
        LET starting == (get_directory_size(cache) + lastWrite'.new_size) - lastWrite'.max
            rounds == Len(lastWrite'.evicted)
        IN /\ rounds <= Cardinality(Present(cache))
           /\ \A i \in 1..rounds :
                /\ OverageAfter(starting, lastWrite'.evicted, i - 1) > 0
                /\ \/ OverageAfter(starting, lastWrite'.evicted, i)
                        < OverageAfter(starting, lastWrite'.evicted, i - 1)
                   \/ i = rounds]_cacheVars

\* a call whose loop ran two rounds, each of which reduced the overage
C20_Witness ==
    /\ WriteReturned /\ lastWrite.max # None
    /\ Len(lastWrite.evicted) = 2
    /\ \A i \in 1..2 : lastWrite.evicted[i].size > 0

\* the names of the files a call evicted
EvictedPaths(evicted) == {evicted[i].path : i \in 1..Len(evicted)}

\* what every call of lru_cache_write evicts
OldestFirstAndMinimal ==
    lastWrite'.called =>
        LET evicted == lastWrite'.evicted
            retained == Present(cache) \ EvictedPaths(evicted)
        IN /\ \A i \in 1..Len(evicted) :
                /\ cache[evicted[i].path] # NoFile
                /\ evicted[i].access_time = cache[evicted[i].path].atime
                /\ \A g \in retained : evicted[i].access_time <= cache[g].atime
                /\ get_directory_size(DirAtRound(cache, evicted, i)) + lastWrite'.new_size > lastWrite'.max
           /\ Cardinality(EvictedPaths(evicted)) = Len(evicted)
           /\ evicted # <<>> => lastWrite'.max # None

\* C33: in every call of lru_cache_write the evicted files are the first of the
\* cache files in ascending access time (each evicted file's access time is at
\* most that of every file that is retained), and a file is evicted only while
\* the current size plus the new item's size exceeds the ceiling.
C33_OldestFirstMinimal == [][OldestFirstAndMinimal]_cacheVars

\* one file was evicted and a file accessed later was retained, though it could have been evicted too
C33_Witness ==
    /\ WriteReturned /\ lastWrite.ret
    /\ Len(lastWrite.evicted) = 1
    /\ lastWrite.evicted[1].size > 0
    /\ \E g \in Present(cache) \ {lastWrite.name} :
        cache[g].atime > lastWrite.evicted[1].access_time /\ cache[g].size > 0

\* the total size of the files of the cache directory that the call could not evict
LockedSize(dir, locked) == SumSizes(dir, Present(dir) \cap locked)

\* C21: an OSError while lru_cache_write examines or deletes an eviction candidate
\* is caught, and the candidate counts as one that could not be evicted: a new
\* item that fits under the ceiling beside the files that cannot be evicted is
\* written and True returned.
C21_FaultSkipsCandidate ==
    [][(lastWrite'.called /\ lastWrite'.max # None
            /\ LockedSize(cache, lastWrite'.locked) + lastWrite'.new_size <= lastWrite'.max
            /\ \A f \in Present(cache) : cache[f].size > 0)
        => lastWrite'.ret]_cacheVars

(***************************************************************************)
(* Properties of the scan cache and the metadata table, checked under      *)
(* ScanSpec.                                                               *)
(***************************************************************************)
ScanReturned == lastScan.called

\* the call found a readable cache file that is within cache_life and was not asked to invalidate it
FoundCurrentFile ==
    /\ ScanReturned /\ ~lastScan.invalidate_cache
    /\ lastScan.file.exists /\ ~lastScan.file.corrupted
    /\ (lastScan.cache_life = Infinite \/ lastScan.now <= lastScan.file.mtime + lastScan.cache_life)

HasMtime == lastScan.table_mtime_f # None /\ lastScan.table_mtime_f # Raised

\* C5 as stated: with a cache file written at T0 and within cache_life, a
\* freshness mtime of T0 + skew + 1 gives a fresh scan and a freshness mtime of
\* T0 + skew - 1 gives the cached snapshot.
C5_AsStated ==
    FoundCurrentFile =>
        /\ lastScan.table_mtime_f = lastScan.file.mtime + get_accommodated_clock_skew + 1
            => (~lastScan.cache_hit /\ lastScan.scanned)
        /\ lastScan.table_mtime_f = lastScan.file.mtime + get_accommodated_clock_skew - 1
            => lastScan.cache_hit

\* C5 (amended): with a readable cache file written at T0 and within cache_life,
\* scan_table_cached reports a cache hit exactly when the table has a freshness
\* record with mtime + skew <= T0; for a freshness mtime of T0 + skew + 1 and
\* also of T0 + skew - 1 it performs a fresh remote scan.
C5_StalenessDecision ==
    FoundCurrentFile =>
        /\ lastScan.cache_hit <=>
            (HasMtime /\ lastScan.table_mtime_f + get_accommodated_clock_skew <= lastScan.file.mtime)
        /\ lastScan.table_mtime_f \in {lastScan.file.mtime + get_accommodated_clock_skew + 1,
                                       lastScan.file.mtime + get_accommodated_clock_skew - 1}
            => (~lastScan.cache_hit /\ lastScan.scanned)

\* a hit on the boundary: the freshness record is exactly skew seconds older than the file
C5_Witness ==
    /\ FoundCurrentFile /\ lastScan.cache_hit
    /\ lastScan.table_mtime_f + get_accommodated_clock_skew = lastScan.file.mtime

\* C6: get_table_mtime_f returns None for a name that was never touched and
\* otherwise the time of the most recent completed update_table_mtime of that name.
C6_FreshnessRoundTrip ==
    \A n \in MetaNames : GetTableMtimeF(metadata, n) = touched[n]

\* C7: after every operation that mutated the table has returned, the table's
\* freshness record exists and its mtime is at least the time of the mutation.
C7_MutationsTouch ==
    (lastMutation.called /\ lastMutation.mutated /\ ~lastMutation.raised)
        => /\ GetTableMtimeF(metadata, TableName) # None
           /\ GetTableMtimeF(metadata, TableName) # Raised
           /\ GetTableMtimeF(metadata, TableName) >= lastMutation.time

\* the call follows a scan_table_cached that wrote the cache file, with no table
\* mutation and no invalidate in between, and is within cache_life
FollowsSnapshotWrite ==
    /\ ScanReturned /\ ~lastScan.invalidate_cache
    /\ lastScan.was_unchanged /\ lastScan.file.exists
    /\ (lastScan.cache_life = Infinite \/ lastScan.now <= lastScan.file.mtime + lastScan.cache_life)

C9_InvalidateForcesScan ==
    (ScanReturned /\ lastScan.invalidate_cache) =>
        /\ ~lastScan.cache_hit /\ lastScan.scanned /\ ~lastScan.raised
        /\ lastScan.result = table.items
        /\ IF table.exists
           THEN snapshot = [exists |-> TRUE, mtime |-> lastScan.now, data |-> table.items, corrupted |-> FALSE]
           ELSE snapshot = NoSnapshot

\* invalidation of a cache file that would have been a hit and differs from the table
C9_Witness ==
    /\ ScanReturned /\ lastScan.invalidate_cache
    /\ lastScan.file.exists /\ ~lastScan.file.corrupted
    /\ HasMtime /\ lastScan.table_mtime_f + get_accommodated_clock_skew <= lastScan.file.mtime
    /\ lastScan.file.data # table.items

\* C23: whenever the table has no freshness record (get_table_mtime_f returns
\* None), scan_table_cached reports cache_hit False and scans the remote table,
\* however recent the cache file is.
C23_AbsentIsStale ==
    (ScanReturned /\ lastScan.table_mtime_f = None) => (~lastScan.cache_hit /\ lastScan.scanned)

\* a scan that found a readable cache file, current and older than the skew, and no record
C23_Witness ==
    /\ ScanReturned /\ lastScan.table_mtime_f = None
    /\ ~lastScan.invalidate_cache
    /\ lastScan.file.exists /\ ~lastScan.file.corrupted
    /\ lastScan.file.mtime >= get_accommodated_clock_skew
    /\ Current(lastScan.now, lastScan.file.mtime, lastScan.cache_life)
    /\ lastScan.scanned

\* C10: scan_table_cached returns a list in every state.
C10_AlwaysReturnsList ==
    ScanReturned => ~lastScan.raised

(***************************************************************************)
(* Properties of update_table_mtime with failing requests, checked under   *)
(* TouchSpec.                                                              *)
(***************************************************************************)
TouchCalled == lastMutation.called /\ lastMutation.op = "update_table_mtime"

\* C22: when update_table_mtime finds the metadata table missing (or the put
\* invalid), it creates the table and puts exactly once more; whenever the call
\* returns normally the record of the name exists with the new mtime; any other
\* error of the put is re-raised, with no second put and no table created.
C22_SelfHealingTouch ==
    TouchCalled =>
        /\ ~lastMutation.raised =>
            /\ metadata.exists
            /\ metadata.item[lastMutation.name] = dict_to_dynamodb(lastMutation.time)
        /\ lastMutation.error_code \in {"ResourceNotFoundException", "ValidationException"} =>
            /\ lastMutation.created
            /\ lastMutation.puts = 2
        /\ lastMutation.error_code = "none" => lastMutation.puts = 1 /\ ~lastMutation.created
        /\ lastMutation.error_code = "AccessDeniedException" =>
            /\ lastMutation.raised
            /\ lastMutation.puts = 1
            /\ ~lastMutation.created
            /\ metadata.exists = lastMutation.existed

\* the freshness records of the names other than the one the call is for are as they were
OthersUnchanged ==
    \A n \in MetaNames \ {lastMutation'.name} : metadata'.item[n] = metadata.item[n]

\* C34: update_table_mtime for one name leaves the freshness records
\* of all other names unchanged, on every path including the error-recovery paths.
C34_FrameOfTouch ==
    [][(lastMutation'.called /\ lastMutation'.op = "update_table_mtime") => OthersUnchanged]_scanVars

\* a touch that found the table missing, created it and returned normally
C22_Witness ==
    /\ TouchCalled /\ ~lastMutation.raised /\ ~lastMutation.existed
    /\ lastMutation.created /\ lastMutation.puts = 2
    /\ lastMutation.time > 0
    /\ metadata.item[lastMutation.name].mtime_f = lastMutation.time

(***************************************************************************)
(* Properties of make_name_aws_safe, checked under NameSpec.               *)
(***************************************************************************)
\* C18: make_name_aws_safe returns, for every argument list, a name of 31
\* characters; two calls whose arguments concatenate to the same string return
\* the same name, and two calls whose concatenations differ return different names.
C18_NameOfConcatenation ==
    nameCall.called =>
        /\ ~nameCall.raised
        /\ Len(nameCall.name) = NameLength
        /\ (namePrev.called /\ ~namePrev.raised) =>
            (Join(namePrev.args) = Join(nameCall.args) <=> namePrev.name = nameCall.name)

(***************************************************************************)
(* Properties of download_cached, checked under S3Spec.                    *)
(***************************************************************************)
DownloadReturned == lastDownload.called /\ ~lastDownload.raised

\* dest_path holds the content of the current object
DeliveredCurrent ==
    /\ lastDownload.delivered.exists
    /\ lastDownload.delivered.content = lastDownload.object

\* C19: download_cached never serves cached content that differs from the
\* current S3 object; the first download_cached after the object was replaced by
\* different content reports cache_hit False, delivers the new content and
\* reports cache_write True; a repeated download_cached of an unchanged object
\* reports cache_hit True and no cache write.
C19_NeverServesStale ==
    DownloadReturned =>
        /\ lastDownload.cache_hit => DeliveredCurrent
        /\ lastDownload.since = "replaced" =>
            /\ ~lastDownload.cache_hit
            /\ DeliveredCurrent
            /\ lastDownload.cache_write = TRUE
        /\ lastDownload.since = "unchanged" =>
            /\ lastDownload.cache_hit
            /\ lastDownload.cache_write # TRUE

\* C40: download_cached reports success True only if dest_path holds the content
\* of the requested object; when the download of a cache miss failed on every
\* retry, the status has neither success True nor cache_write True.
C40_SuccessMeansDelivered ==
    DownloadReturned =>
        /\ lastDownload.success => DeliveredCurrent
        /\ (~lastDownload.cache_hit /\ ~lastDownload.downloaded) =>
            (~lastDownload.success /\ lastDownload.cache_write # TRUE)

(***************************************************************************)
(* Properties of remove_old_queues, checked under ReapSpec.                *)
(***************************************************************************)
\* the freshness record the call read for queue q
ReapRecord(q) == lastReap.mtime[q]

C24_AbsentRecordReaped ==
    (lastReap.called /\ ~lastReap.raised /\ ~BlankChannel(lastReap.channel)) =>
        \A q \in lastReap.listed :
            ReapRecord(q) = None =>
                /\ q \in lastReap.attempted
                /\ q \in lastReap.removed

\* C25: when delete_queue fails in remove_old_queues, a queue that does not exist
\* any more is reported as removed, a queue whose deletion failed for another
\* reason is not in the returned list, and every returned name is the name of a
\* queue that no longer exists.
C25_DeleteErrors ==
    (lastReap.called /\ ~lastReap.raised) =>
        /\ \A q \in lastReap.attempted :
            /\ lastReap.outcome[q] = "QueueDoesNotExist" => q \in lastReap.removed
            /\ lastReap.outcome[q] = "AccessDenied" => q \notin lastReap.removed
        /\ \A q \in lastReap.removed : q \notin lastReap.after

\* C17: with a channel prefix shorter than 2 characters remove_old_queues lists
\* no queues, deletes nothing and returns an empty list.
C17_ReaperGuardrail ==
    (lastReap.called /\ Len(Spelling[lastReap.channel]) < 2) =>
        /\ ~lastReap.raised
        /\ lastReap.listed = {}
        /\ lastReap.attempted = {}
        /\ lastReap.after = lastReap.before
        /\ lastReap.removed = {}

\* a call with a one-character prefix of a queue whose record is older than queue_timeout
C17_Witness ==
    /\ lastReap.called /\ lastReap.channel = "p"
    /\ \E q \in lastReap.before :
        /\ ReapRecord(q) # None /\ ReapRecord(q) # Raised
        /\ lastReap.now - ReapRecord(q) > queue_timeout
    /\ lastReap.removed = {}

(***************************************************************************)
(* Properties of the pub/sub coordinator, checked under PubSubSpec and     *)
(* FairPubSubSpec.                                                         *)
(***************************************************************************)
Range(seq) == {seq[i] : i \in 1..Len(seq)}

\* the coordinator is in its publish/dispatch loop, or has left it
InLoop == pc \in {"test", "pub", "sub", "wait", "clear", "stop", "join", "done"} \/ log.handed # <<>>

\* a request of _connect_sns_to_sqs raised
WiringFailed == \E i \in 1..Len(log.startup) : log.startup[i] \in {"subscribe failed", "set_attributes failed"}

\* run has been entered and its startup statements have completed
Started == InLoop \/ (pc = "crashed" /\ ~WiringFailed)

\* the callback was called with message, or the polling inbox was given a string that decodes to it
Delivered(message) ==
    \/ sub_callback /\ message \in Range(log.called_back)
    \/ use_sub_queue /\ message \in Range(LoadAll(log.put))

\* C11: under fair scheduling of both threads, every message passed to publish()
\* on a started coordinator that subscribes to the channel is eventually handed
\* to the callback or placed in the polling inbox, with content equal to what was
\* published, unless the coordinator is asked to exit first.
C11_EndToEndDelivery ==
    \A message \in Dicts :
        []((message \in Range(log.published) /\ Started /\ IsSubscriber)
            => <>(Delivered(message) \/ exit_event))

\* C12: once the coordinator thread has left its loop and ended, every message the
\* pump took from the SQS queue has been handed to the callback or the inbox.
C12_NoSilentDrop ==
    pc = "done" =>
        /\ Len(log.dispatched) = Len(log.taken)
        /\ \A i \in 1..Len(log.taken) : log.dispatched[i] = json_loads(log.taken[i]).Message

\* C13: a ClientError of sns.publish does not end the coordinator's run and does
\* not lose the message: every message passed to publish() is still in the
\* publish queue or has been handed to the topic.
C13_PublishErrorTolerated ==
    /\ pc = "crashed" => WiringFailed
    /\ \A message \in Range(log.published) :
        message \in Range(pub_queue) \/ json_dumps(message) \in Range(log.handed)

RECURSIVE DumpAll(_)
DumpAll(messages) ==
    IF messages = <<>> THEN <<>> ELSE <<json_dumps(Head(messages))>> \o DumpAll(Tail(messages))

RECURSIVE Messages(_)
Messages(bodies) ==
    IF bodies = <<>> THEN <<>> ELSE <<json_loads(Head(bodies)).Message>> \o Messages(Tail(bodies))

IsPrefix(short, long) == Len(short) <= Len(long) /\ short = SubSeq(long, 1, Len(short))

\* only the pub statement hands a message over, one at a time, and it is reached
\* from the loop test only (pc' = "none": the coordinator object is replaced)
OneHandedPerIteration ==
    /\ (pc' # "none" /\ log'.handed # log.handed) =>
        (pc = "pub" /\ pc' = "sub" /\ Len(log'.handed) = Len(log.handed) + 1)
    /\ (pc' = "pub" /\ pc # "pub") => (pc = "test")

\* C28: the messages passed to publish() on one coordinator are handed to the
\* topic's publish operation in the order of the publish() calls, none twice,
\* and at most one in each iteration of the loop: only the pub statement hands a
\* message over, one at a time, and it is reached from the loop test only.
C28_PublishOrder ==
    /\ [](IsPrefix(log.handed, DumpAll(log.published)))
    /\ [][OneHandedPerIteration]_vars

\* both messages were handed over, in the order of their publish() calls, before a clean exit
C28_Witness ==
    /\ Len(log.handed) = 2
    /\ log.handed = DumpAll(log.published)
    /\ pc = "done"

\* C29: each message the coordinator takes from the pump's hand-off queue, in
\* the order the pump received them, is appended to the inbox when polling mode
\* is on and passed to the callback when one is registered (both when both are),
\* and in either case the freshness record of the node's queue is touched; only
\* the coordinator's sub statement invokes the callback, one message at a time.
C29_Dispatch ==
    /\ [](/\ IsPrefix(log.dispatched, Messages(log.taken))
          /\ log.put = IF use_sub_queue THEN log.dispatched ELSE <<>>
          /\ log.called_back = IF sub_callback THEN LoadAll(log.dispatched) ELSE <<>>
          /\ log.touches = log.dispatched
          /\ (log.dispatched # <<>>) => (\E q \in QueueNames : GetTableMtimeF(metadata, q) = clock))
    /\ [][(pc' # "none" /\ log'.called_back # log.called_back) =>
            (pc = "sub" /\ pc' = "wait" /\ threadPc' = threadPc
             /\ Len(log'.called_back) = Len(log.called_back) + 1)]_vars

\* a coordinator with both a callback and polling mode has dispatched two messages
C29_Witness ==
    /\ sub_callback /\ use_sub_queue
    /\ Len(log.dispatched) = 2
    /\ Len(log.called_back) = 2 /\ Len(log.put) = 2

RECURSIVE DecodableOnly(_)
DecodableOnly(bodies) ==
    IF bodies = <<>> THEN <<>>
    ELSE (IF Decodable(Head(bodies)) THEN <<Head(bodies)>> ELSE <<>>) \o DecodableOnly(Tail(bodies))

\* C30: a body received from the queue that cannot be decoded is discarded: it
\* never ends the pump, and whenever the pump is between two receives every
\* decodable message it has taken, of the same batch too, is on the hand-off
\* queue or has been dispatched.
C30_UndecodableDiscarded ==
    /\ threadPc # "crashed"
    /\ (threadPc \in {"test", "receive", "done"}) =>
        (Messages(DecodableOnly(log.taken)) = log.dispatched \o thread_sub_queue)

\* C26: a failure of the subscription or of the queue-policy request while the
\* new queue is wired to the topic leaves run: the coordinator never enters its
\* publish/dispatch loop and never starts the pump after it.
C26_WiringFailurePropagates ==
    WiringFailed =>
        /\ pc = "crashed"
        /\ threadPc = "none"
        /\ ~InLoop
        /\ log.handed = <<>> /\ log.taken = <<>> /\ log.dispatched = <<>>

\* the policy request of a subscriber's new queue failed while a message waited to be published
C26_Witness ==
    /\ WiringFailed
    /\ log.startup = <<"missing", "create_queue", "subscribe", "set_attributes failed">>
    /\ sub_callback
    /\ pub_queue # <<>>

\* the places of event in the startup statements executed so far
Places(event) == {i \in 1..Len(log.startup) : log.startup[i] = event}

Precedes(first, second) ==
    \A j \in Places(second) : \E i \in Places(first) : i < j

\* nothing was handed to the topic, taken from the queue or dispatched
NothingMoved == log.handed = <<>> /\ log.taken = <<>> /\ log.dispatched = <<>>

\* C27 as stated: the coordinator provisions the channel and touches its queue's
\* record, then starts the pump, then triggers the reaper, exactly once; nothing
\* is published or dispatched before provisioning has completed.
C27_AsStated ==
    /\ Precedes("update_table_mtime", "sqs_thread.start")
    /\ Places("sqs_thread.start") # {} => Precedes("sqs_thread.start", "remove_old_queues")
    /\ Cardinality(Places("remove_old_queues")) <= 1
    /\ InLoop => Cardinality(Places("remove_old_queues")) = 1
    /\ ~NothingMoved => Places("update_table_mtime") # {}

\* C27 (amended): the coordinator provisions the channel and touches its queue's
\* record, then triggers the reaper, then starts the pump (when it is a
\* subscriber); the reaper is triggered exactly once per start, and nothing is
\* published, received or dispatched before all of that has completed.
C27_StartupOrder ==
    /\ Precedes("create_queue", "subscribe")
    /\ Precedes("subscribe", "set_attributes")
    /\ Precedes("set_attributes", "update_table_mtime") \/ Places("exists") # {}
    /\ Precedes("update_table_mtime", "remove_old_queues")
    /\ Precedes("remove_old_queues", "sqs_thread.start")
    /\ Cardinality(Places("remove_old_queues")) <= 1
    /\ threadPc # "none" => Places("sqs_thread.start") # {}
    /\ (InLoop \/ ~NothingMoved) =>
        /\ Cardinality(Places("update_table_mtime")) = 1
        /\ Cardinality(Places("remove_old_queues")) = 1
        /\ IsSubscriber => Cardinality(Places("sqs_thread.start")) = 1
        /\ Places("missing") # {} => Places("set_attributes") # {}
        /\ metadata.exists /\ \E q \in QueueNames : metadata.item[q] # NoItem

\* a subscriber that created and wired its queue has dispatched a message
C27_Witness ==
    /\ log.startup = <<"missing", "create_queue", "subscribe", "set_attributes", "update_table_mtime",
                       "remove_old_queues", "sqs_thread.start">>
    /\ log.dispatched # <<>>
    /\ lastReap.called

C15_ShutdownTerminates ==
    []((exit_event /\ Started /\ pc # "crashed") => <>(pc = "done"))

\* C37: whenever the coordinator blocks in the new-activity wait with the
\* signal clear, its publish queue and the pump's hand-off queue are both empty.
C37_WaitsOnlyWhenDrained ==
    (pc = "wait" /\ ~new_event) => (pub_queue = <<>> /\ thread_sub_queue = <<>>)

\* the messages accepted by publish() before request_exit()
AcceptedBeforeExit ==
    IF log.accepted_at_exit = None THEN {}
    ELSE {log.published[i] : i \in 1..log.accepted_at_exit}

\* C38: the coordinator does not end while its publish queue still holds a
\* message that publish() accepted before request_exit(): when run has returned,
\* every such message has been taken from the queue for the topic's publish.
C38_DrainsBeforeExit ==
    pc = "done" => \A i \in 1..Len(pub_queue) : pub_queue[i] \notin AcceptedBeforeExit

\* C36: whenever the coordinator has completed provisioning and is in its main
\* loop, its node queue exists, is subscribed to the topic and carries the
\* delivery policy, whatever earlier starts of the same channel and node did.
C36_LoopMeansWired ==
    (pc \in {"test", "pub", "sub", "wait", "clear"}) =>
        (node_queue.exists /\ node_queue.subscribed /\ node_queue.policy)

(***************************************************************************)
(* Properties of the queues of one channel's nodes, checked under          *)
(* ChannelSpec.                                                            *)
(***************************************************************************)
\* remove_old_queues(self.channel) of a coordinator of the channel has returned
ChannelReaped == lastReap.called /\ lastReap.channel = "channel a" /\ ~lastReap.raised

\* C31: the name of a queue provisioned by a coordinator starts with the channel
\* name the coordinator lists and reaps by, so that remove_old_queues(self.channel)
\* lists every node queue of the channel that exists, and deletes the ones whose
\* record is older than queue_timeout.
C31_ChannelPrefix ==
    /\ \A q \in queues \cap NodeQueues : IsPrefix(Spelling["channel a"], Spelling[q])
    /\ ChannelReaped =>
        /\ lastReap.before \cap NodeQueues \subseteq lastReap.listed
        /\ \A q \in lastReap.before \cap NodeQueues :
            Old(lastReap.mtime[q], lastReap.now) => q \in lastReap.attempted

C32_MivStrictlyIncreases ==
    /\ \A i \in 1..Len(mivPuts) : \A m \in mivPuts[i].stored : mivPuts[i].mivui > m
    /\ \A i \in 1..Len(mivPuts) : [mivui |-> mivPuts[i].mivui, put |-> i] \in mivItems
    /\ mivPuts # <<>> =>
        [mivui |-> ExistingMivUi(mivItems), put |-> Len(mivPuts)] \in mivItems

(***************************************************************************)
(* Properties of a writer and a reader of the table, checked under         *)
(* RaceSpec.                                                               *)
(***************************************************************************)
\* C35: with one put_item and scan_table_cached calls interleaved statement by
\* statement, every scan_table_cached that begins after the writer's
\* update_table_mtime has returned either is a miss or returns data that
\* contains the item written.
C35_NoStaleHitAfterTouch ==
    (lastScan.called /\ lastScan.after_touch) =>
        (~lastScan.cache_hit \/ Items \subseteq lastScan.result)

====
